---- MODULE Spec2Model ----
(***************************************************************************)
(* A model of rust-pipe (rp): the command-line pipeline tool.              *)
(*                                                                         *)
(* The module holds several state machines over one set of variables, one  *)
(* per part of the program:                                                *)
(*   SpecSlice  parse_slice and SliceIter            (src/op/slice.rs)     *)
(*   SpecGen    range_to_iter and RangeIter          (src/input.rs)        *)
(*   SpecCond   Condition::test and Select::select   (src/condition.rs)    *)
(*   SpecJoin   ChunkJoin                            (src/op/mod.rs)       *)
(*   SpecRun    run, Op::wrap, Output::handle, main  (src/main.rs ...)     *)
(* Each specification keeps the variables of the other parts unchanged.    *)
(***************************************************************************)
EXTENDS Integers, Sequences, FiniteSets, TLC

VARIABLES
    \* ---- SliceIter (src/op/slice.rs) ----
    sl_pc,        \* "args" | "op" | "iter" | "end" | "err"
    sl_args,      \* the range arguments given to :slice, in order
    sl_len,       \* number of items of the upstream source (items are 0..sl_len-1)
    sl_idx,       \* Enumerate<I>: index of the next item the source will produce
    sl_ranges,    \* Peekable<R>: the ranges not yet consumed
    sl_out,       \* the items yielded so far
    \* ---- :gen, range_to_iter and RangeIter (src/input.rs) ----
    gen_pc,       \* "new" | "iter" | "end" | "panic"
    gen_start,    \* Input::Gen { start, end, included, step }
    gen_end,
    gen_included,
    gen_step,
    gen_checks,   \* build profile: TRUE when integer overflow panics, FALSE when it wraps
    gen_rev,      \* TRUE when range_to_iter returned iter.rev()
    gen_it,       \* the RangeIter
    gen_out,      \* the integers yielded so far
    \* ---- Condition and Select (src/condition.rs) ----
    cond_pc,      \* "ready" | "tested"
    cond_select,  \* the Select
    cond_input,   \* the item under test, a sequence of characters
    cond_yes,     \* Condition::new(select, false).test(input)
    cond_not,     \* Condition::new(select, true).test(input)
    \* ---- ChunkJoin (src/op/mod.rs) ----
    cj_pc,        \* "op" | "iter" | "end"
    cj_upstream,  \* the items the upstream pipe will produce
    cj_batch,     \* Op::Join { batch: Some(count) }
    cj_info,      \* JoinInfo { delimiter, prefix, postfix }
    cj_source,    \* ChunkJoin.source: the upstream items not yet taken
    cj_out,       \* the joined items yielded so far
    cj_taken,     \* chunk.len() of every item yielded
    \* ---- run and main (src/lib.rs, src/main.rs) ----
    run_pc,       \* "start" | "parsed" | "wrapping" | "handling" | "returned" | "exited"
    run_args,     \* the command line and the environment it runs in
    run_parsed,   \* the parser has returned (input, ops, output)
    run_ops,      \* the operators not yet wrapped around the pipe
    run_st,       \* the pipe, and what the run has done to the outside world
    run_out,      \* the output: file opened, items written
    run_printed,  \* "none" | "help" | "version" | "pipe_info"
    run_result,   \* what run returned: "none" | "Ok" | an RpErr
    run_exit,     \* exit status of the process, -1 while it runs
    \* ---- :take, :drop, :take while, :drop while (src/op/mod.rs) ----
    td_pc,        \* "op" | "iter" | "end"
    td_mode,      \* TakeDropMode
    td_cond,      \* the Condition: [select, not]
    td_upstream,  \* the items the upstream pipe will produce
    td_source,    \* the upstream items not yet taken
    td_flag,      \* the flag of TakeWhile / SkipWhile
    td_out,       \* the items yielded so far
    \* ---- :replace and :trim (src/op/replace.rs, src/op/trim.rs) ----
    tx_pc,        \* "op" | "arg" | "done"
    tx_op,        \* the operator as parsed: what ReplaceArg::new / TrimArg::new is given
    tx_text,      \* the item
    tx_nocase,    \* configs.contains(&Config::Nocase)
    tx_arg,       \* the ReplaceArg or TrimArg
    tx_result,    \* the item the operator maps tx_text to
    ps_pc,          \* parser: "start", "parsed", "ran", "failed"
    ps_mode,        \* parser: "args" (argv tokens) or "token" (--token text)
    ps_windows,     \* parser: TRUE when the build is for windows (cfg(windows))
    ps_args,        \* parser: the words of the command line after the options
    ps_result,      \* parser: what parse / parse_eval_token returned
    lm_pc,          \* :limit / :skip: "args", "op", "iter", "end"
    lm_cmd,         \* :limit / :skip: "limit" or "skip"
    lm_count,       \* :limit / :skip: the count argument
    lm_len,         \* :limit / :skip: number of upstream items (item i is its index)
    lm_idx,         \* :limit / :skip: position of the enumerated source
    lm_ranges,      \* :limit / :skip: the ranges of the Op::Slice / SliceIter
    lm_out,         \* :limit / :skip: the items yielded so far
    uq_pc,          \* :uniq: "op", "iter", "end"
    uq_nocase,      \* :uniq: the operator's own nocase flag
    uq_global,      \* :uniq: TRUE when the configs hold Config::Nocase
    uq_upstream,    \* :uniq: the upstream items
    uq_pos,         \* :uniq: number of upstream items consumed
    uq_seen,        \* :uniq: the HashSet of keys
    uq_out,         \* :uniq: the items yielded so far
    ws_pc,          \* whole-stream stages: "wrap", "iter", "end"
    ws_op,          \* whole-stream stages: the Op (Count or Sort)
    ws_upstream,    \* whole-stream stages: the upstream items
    ws_pos,         \* whole-stream stages: number of upstream items pulled
    ws_ended,       \* whole-stream stages: the upstream has returned None
    ws_buf,         \* whole-stream stages: what the stage holds for downstream
    ws_out,         \* whole-stream stages: the items delivered downstream
    od_pc,          \* order model: "source", "wrap", "sink", "done" or "idle"
    od_src,         \* the items the source yields
    od_ops,         \* the stages of the pipeline, in command-line order
    od_k,           \* how many stages have been wrapped around the pipe
    od_items,       \* the items the pipe yields so far built, each with the
                    \* positions of the source items it derives from
    od_out,         \* the items the sink has received
    ri_pc,          \* range iterator model: "new", "iter", "panic" or "idle"
    ri_args,        \* the arguments of range_to_iter
    ri_checks,      \* whether the build checks integer overflow
    ri_it,          \* the RangeIter
    ri_log,         \* the calls made so far, each with its result
    si_pc,          \* slice iterator model: "call", "loop", "end" or "idle"
    si_given,       \* the ranges SliceIter::new was given
    si_ranges,      \* the ranges left
    si_inf,         \* whether the source never ends
    si_len,         \* the number of items of a source that ends
    si_idx,         \* the number of items pulled from the source
    si_out,         \* the source indices of the items yielded
    pj_pc,          \* :join parser model: "args", "done" or "idle"
    pj_args,        \* the words of the command line from :join on
    pj_op,          \* the operator parse_join returns
    pj_rest         \* the words left in the token stream

sliceVars == <<sl_pc, sl_args, sl_len, sl_idx, sl_ranges, sl_out>>
genVars == <<gen_pc, gen_start, gen_end, gen_included, gen_step, gen_checks,
             gen_rev, gen_it, gen_out>>

condVars == <<cond_pc, cond_select, cond_input, cond_yes, cond_not>>

joinVars == <<cj_pc, cj_upstream, cj_batch, cj_info, cj_source, cj_out, cj_taken>>

runVars == <<run_pc, run_args, run_parsed, run_ops, run_st, run_out, run_printed,
             run_result, run_exit>>

tdVars == <<td_pc, td_mode, td_cond, td_upstream, td_source, td_flag, td_out>>

textVars == <<tx_pc, tx_op, tx_text, tx_nocase, tx_arg, tx_result>>

parseVars == <<ps_pc, ps_mode, ps_windows, ps_args, ps_result>>

limitVars == <<lm_pc, lm_cmd, lm_count, lm_len, lm_idx, lm_ranges, lm_out>>

uniqVars == <<uq_pc, uq_nocase, uq_global, uq_upstream, uq_pos, uq_seen, uq_out>>

wsVars == <<ws_pc, ws_op, ws_upstream, ws_pos, ws_ended, ws_buf, ws_out>>

ordVars == <<od_pc, od_src, od_ops, od_k, od_items, od_out>>

riVars == <<ri_pc, ri_args, ri_checks, ri_it, ri_log>>

siVars == <<si_pc, si_given, si_ranges, si_inf, si_len, si_idx, si_out>>

pjVars == <<pj_pc, pj_args, pj_op, pj_rest>>

vars == <<sliceVars, genVars, condVars, joinVars, runVars, tdVars, textVars, parseVars, limitVars, uniqVars, wsVars, ordVars, riVars, siVars, pjVars>>

\* the variables each part of the model leaves alone
notSlice == <<genVars, condVars, joinVars, runVars, tdVars, textVars, parseVars, limitVars, uniqVars, wsVars, ordVars, riVars, siVars, pjVars>>
notGen == <<sliceVars, condVars, joinVars, runVars, tdVars, textVars, parseVars, limitVars, uniqVars, wsVars, ordVars, riVars, siVars, pjVars>>
notCond == <<sliceVars, genVars, joinVars, runVars, tdVars, textVars, parseVars, limitVars, uniqVars, wsVars, ordVars, riVars, siVars, pjVars>>
notJoin == <<sliceVars, genVars, condVars, runVars, tdVars, textVars, parseVars, limitVars, uniqVars, wsVars, ordVars, riVars, siVars, pjVars>>
notRun == <<sliceVars, genVars, condVars, joinVars, tdVars, textVars, parseVars, limitVars, uniqVars, wsVars, ordVars, riVars, siVars, pjVars>>
notTd == <<sliceVars, genVars, condVars, joinVars, runVars, textVars, parseVars, limitVars, uniqVars, wsVars, ordVars, riVars, siVars, pjVars>>
notText == <<sliceVars, genVars, condVars, joinVars, runVars, tdVars, parseVars, limitVars, uniqVars, wsVars, ordVars, riVars, siVars, pjVars>>
notParse == <<sliceVars, genVars, condVars, joinVars, runVars, tdVars, textVars, limitVars, uniqVars, wsVars, ordVars, riVars, siVars, pjVars>>
notLimit == <<sliceVars, genVars, condVars, joinVars, runVars, tdVars, textVars, parseVars, uniqVars, wsVars, ordVars, riVars, siVars, pjVars>>
notUniq == <<sliceVars, genVars, condVars, joinVars, runVars, tdVars, textVars, parseVars, limitVars, wsVars, ordVars, riVars, siVars, pjVars>>
notWs == <<sliceVars, genVars, condVars, joinVars, runVars, tdVars, textVars, parseVars, limitVars, uniqVars, ordVars, riVars, siVars, pjVars>>
notOrd == <<sliceVars, genVars, condVars, joinVars, runVars, tdVars, textVars, parseVars, limitVars, uniqVars, wsVars, riVars, siVars, pjVars>>
notRi == <<sliceVars, genVars, condVars, joinVars, runVars, tdVars, textVars, parseVars, limitVars, uniqVars, wsVars, ordVars, siVars, pjVars>>
notSi == <<sliceVars, genVars, condVars, joinVars, runVars, tdVars, textVars, parseVars, limitVars, uniqVars, wsVars, ordVars, riVars, pjVars>>
notPj == <<sliceVars, genVars, condVars, joinVars, runVars, tdVars, textVars, parseVars, limitVars, uniqVars, wsVars, ordVars, riVars, siVars>>

(***************************************************************************)
(* Generic helpers                                                         *)
(***************************************************************************)
\* Option::None of an Option<usize>
NoneU == -1

\* Iterator::next returning None, for iterators over non-negative items
NoItem == -1

Range(s) == {s[i] : i \in DOMAIN s}

(***************************************************************************)
(* :slice                                                                  *)
(***************************************************************************)
\* ---- bounds of the slice model ----
MaxRangeBound == 3     \* range bounds are drawn from 0..MaxRangeBound or absent
MaxRanges == 2         \* number of range arguments
MaxSourceLen == 5      \* upstream length

\* The ranges and the source of the example in parse/args/op.rs:442 and spec section 8
ExampleRanges == << <<0, 5>>, <<7, 10>>, <<3, 9>> >>
ExampleLen == 11

RangeArgs == (({NoneU} \cup 0..MaxRangeBound) \X ({NoneU} \cup 0..MaxRangeBound))
RangeArgLists == UNION {[1..n -> RangeArgs] : n \in 0..MaxRanges}

\* parse_slice: `!matches!(range, (Some(s), Some(e)) if s > e)`
IsInverted(r) == r[1] # NoneU /\ r[2] # NoneU /\ r[1] > r[2]

\* parse_slice: the ranges kept, in the order given
RECURSIVE parse_slice_ranges(_)
parse_slice_ranges(args) ==
    IF args = <<>> THEN <<>>
    ELSE IF ~IsInverted(Head(args))
         THEN <<Head(args)>> \o parse_slice_ranges(Tail(args))
         ELSE parse_slice_ranges(Tail(args))

\* SliceIter::next, the `while let Some((idx, item)) = self.source.next()` loop.
\* Returns the item (or NoItem), the source position and the ranges left.
RECURSIVE SliceLoop(_, _, _)
SliceLoop(idx, ranges, len) ==
    IF idx >= len
    THEN [item |-> NoItem, idx |-> idx, ranges |-> ranges]
    ELSE IF ranges = <<>>
    THEN [item |-> NoItem, idx |-> idx + 1, ranges |-> ranges]
    ELSE LET start == Head(ranges)[1]
             end == Head(ranges)[2]
         IN  IF start # NoneU /\ end # NoneU /\ start <= idx /\ idx <= end
             THEN [item |-> idx, idx |-> idx + 1,
                   ranges |-> IF idx = end THEN Tail(ranges) ELSE ranges]
             ELSE IF start # NoneU /\ end = NoneU /\ start <= idx
             THEN [item |-> idx, idx |-> idx + 1, ranges |-> ranges]
             ELSE IF start = NoneU /\ end # NoneU /\ idx <= end
             THEN [item |-> idx, idx |-> idx + 1,
                   ranges |-> IF idx = end THEN Tail(ranges) ELSE ranges]
             ELSE SliceLoop(idx + 1, ranges, len)

\* SliceIter::next
SliceIterNext(idx, ranges, len) ==
    IF ranges = <<>>
    THEN [item |-> NoItem, idx |-> idx, ranges |-> ranges]
    ELSE SliceLoop(idx, ranges, len)

SliceInit ==
    /\ sl_pc = "args"
    /\ \/ sl_args \in RangeArgLists /\ sl_len \in 0..MaxSourceLen
       \/ sl_args = ExampleRanges /\ sl_len = ExampleLen
    /\ sl_idx = 0
    /\ sl_ranges = <<>>
    /\ sl_out = <<>>

\* parse_slice succeeds: at least one range is left
ParseSliceOk ==
    /\ sl_pc = "args"
    /\ parse_slice_ranges(sl_args) # <<>>
    /\ sl_ranges' = parse_slice_ranges(sl_args)
    /\ sl_pc' = "op"
    /\ UNCHANGED <<sl_args, sl_len, sl_idx, sl_out>>
    /\ UNCHANGED notSlice

\* parse_slice fails with MissingArg
ParseSliceErr ==
    /\ sl_pc = "args"
    /\ parse_slice_ranges(sl_args) = <<>>
    /\ sl_pc' = "err"
    /\ UNCHANGED <<sl_args, sl_len, sl_idx, sl_ranges, sl_out>>
    /\ UNCHANGED notSlice

\* SliceIter::new(source, ranges): the ranges are kept as given, the source
\* is enumerated from index 0
SliceNew ==
    /\ sl_pc = "op"
    /\ sl_idx' = 0
    /\ sl_pc' = "iter"
    /\ UNCHANGED <<sl_args, sl_len, sl_ranges, sl_out>>
    /\ UNCHANGED notSlice

\* one call of SliceIter::next that yields an item
SliceYield ==
    /\ sl_pc = "iter"
    /\ LET r == SliceIterNext(sl_idx, sl_ranges, sl_len)
       IN  /\ r.item # NoItem
           /\ sl_out' = Append(sl_out, r.item)
           /\ sl_idx' = r.idx
           /\ sl_ranges' = r.ranges
    /\ UNCHANGED <<sl_pc, sl_args, sl_len>>
    /\ UNCHANGED notSlice

\* one call of SliceIter::next that returns None: the consumer stops
SliceEnd ==
    /\ sl_pc = "iter"
    /\ LET r == SliceIterNext(sl_idx, sl_ranges, sl_len)
       IN  /\ r.item = NoItem
           /\ sl_idx' = r.idx
           /\ sl_ranges' = r.ranges
    /\ sl_pc' = "end"
    /\ UNCHANGED <<sl_args, sl_len, sl_out>>
    /\ UNCHANGED notSlice

SliceNext ==
    \/ ParseSliceOk
    \/ ParseSliceErr
    \/ SliceNew
    \/ SliceYield
    \/ SliceEnd

SliceIdle ==
    /\ sl_pc = "idle"
    /\ sl_args = <<>>
    /\ sl_len = 0
    /\ sl_idx = 0
    /\ sl_ranges = <<>>
    /\ sl_out = <<>>

(***************************************************************************)
(* :gen  --  range_to_iter and RangeIter                                   *)
(***************************************************************************)
\* ---- bounds of the :gen model ----
IntBits == 5           \* width of Integer in the model (i64 in the program)
MaxSmallStep == 3      \* steps are drawn from -MaxSmallStep..MaxSmallStep and the extremes

RECURSIVE Pow2(_)
Pow2(n) == IF n = 0 THEN 1 ELSE 2 * Pow2(n - 1)

\* Integer::MIN and Integer::MAX
MinInt == -Pow2(IntBits - 1)
MaxInt == Pow2(IntBits - 1) - 1
Integer == MinInt..MaxInt

Overflows(x) == x < MinInt \/ x > MaxInt

\* two's complement wrap-around of a result that left the Integer range
WrapInt(x) == ((x - MinInt) % Pow2(IntBits)) + MinInt

\* the consumer of the model stops after this many items (a wrapped cursor can cycle)
GenCap == Pow2(IntBits) + 2

GenSteps == {s \in Integer : s # 0 /\ (s \in -MaxSmallStep..MaxSmallStep
                                       \/ s \in {MinInt, MaxInt, -MaxInt})}

\* a panicked computation carries no iterator
NoIter == [start |-> 0, end |-> 0, included |-> FALSE, step |-> 0, next |-> 0, next_back |-> 0]

\* range_to_iter: the RangeIter it builds; `panic` when Integer::abs(step) or end - 1
\* overflows in a build with overflow checks
range_to_iter(start, end, included, step, checks) ==
    LET absStep == IF step < 0 THEN -step ELSE step
        back == IF included THEN end ELSE end - 1
    IN  IF checks /\ (Overflows(absStep) \/ Overflows(back))
        THEN [panic |-> TRUE, rev |-> FALSE, it |-> NoIter]
        ELSE [panic |-> FALSE,
              rev |-> step < 0,
              it |-> [start |-> start, end |-> end, included |-> included,
                      step |-> WrapInt(absStep),
                      next |-> start,
                      next_back |-> WrapInt(back)]]

\* the bound test shared by next and next_back
InBounds(it, v) ==
    /\ v >= it.start
    /\ \/ it.included /\ v <= it.end
       \/ ~it.included /\ v < it.end

\* RangeIter::next as it would be if the front cursor had to stay below the back cursor
RangeIterNextBelowBack(it, checks) ==
    IF InBounds(it, it.next) /\ it.next < it.next_back
    THEN IF checks /\ Overflows(it.next + it.step)
         THEN [res |-> "panic", val |-> 0, it |-> it]
         ELSE [res |-> "some", val |-> it.next,
               it |-> [it EXCEPT !.next = WrapInt(it.next + it.step)]]
    ELSE [res |-> "none", val |-> 0, it |-> it]

\* RangeIter::next: res is "some" (val yielded), "none" or "panic"
RangeIterNext(it, checks) ==
    IF InBounds(it, it.next) /\ it.next <= it.next_back
    THEN IF checks /\ Overflows(it.next + it.step)
         THEN [res |-> "panic", val |-> 0, it |-> it]
         ELSE [res |-> "some", val |-> it.next,
               it |-> [it EXCEPT !.next = WrapInt(it.next + it.step)]]
    ELSE [res |-> "none", val |-> 0, it |-> it]

\* RangeIter::next_back
RangeIterNextBack(it, checks) ==
    IF InBounds(it, it.next_back) /\ it.next_back >= it.next
    THEN IF checks /\ Overflows(it.next_back - it.step)
         THEN [res |-> "panic", val |-> 0, it |-> it]
         ELSE [res |-> "some", val |-> it.next_back,
               it |-> [it EXCEPT !.next_back = WrapInt(it.next_back - it.step)]]
    ELSE [res |-> "none", val |-> 0, it |-> it]

\* next() of the boxed iterator range_to_iter returns: Rev::next is next_back
BoxedNext(it, rev, checks) ==
    IF rev THEN RangeIterNextBack(it, checks) ELSE RangeIterNext(it, checks)

\* collect::<Vec<_>>() of the boxed iterator, cut after `fuel` items
RECURSIVE CollectIter(_, _, _, _)
CollectIter(it, rev, checks, fuel) ==
    LET r == BoxedNext(it, rev, checks)
    IN  IF r.res = "some"
        THEN IF fuel = 0
             THEN [seq |-> <<>>, status |-> "cap"]
             ELSE LET rest == CollectIter(r.it, rev, checks, fuel - 1)
                  IN  [seq |-> <<r.val>> \o rest.seq, status |-> rest.status]
        ELSE [seq |-> <<>>, status |-> IF r.res = "none" THEN "end" ELSE "panic"]

\* range_to_iter(...).collect()
Collect(start, end, included, step, checks) ==
    LET b == range_to_iter(start, end, included, step, checks)
    IN  IF b.panic THEN [seq |-> <<>>, status |-> "panic"]
        ELSE CollectIter(b.it, b.rev, checks, GenCap)

GenInit ==
    /\ gen_pc = "new"
    /\ gen_start \in Integer
    /\ gen_end \in Integer
    /\ gen_included \in BOOLEAN
    /\ gen_step \in GenSteps
    /\ gen_checks \in BOOLEAN
    /\ gen_rev = FALSE
    /\ gen_it = NoIter
    /\ gen_out = <<>>

GenIdle ==
    /\ gen_pc = "idle"
    /\ gen_start = 0
    /\ gen_end = 0
    /\ gen_included = FALSE
    /\ gen_step = 0
    /\ gen_checks = FALSE
    /\ gen_rev = FALSE
    /\ gen_it = NoIter
    /\ gen_out = <<>>

\* Input::Gen => range_to_iter(start, end, included, step)
GenNew ==
    /\ gen_pc = "new"
    /\ LET b == range_to_iter(gen_start, gen_end, gen_included, gen_step, gen_checks)
       IN  /\ ~b.panic
           /\ gen_it' = b.it
           /\ gen_rev' = b.rev
    /\ gen_pc' = "iter"
    /\ UNCHANGED <<gen_start, gen_end, gen_included, gen_step, gen_checks, gen_out>>
    /\ UNCHANGED notGen

\* range_to_iter panics on Integer::abs(step) or end - 1
GenNewPanic ==
    /\ gen_pc = "new"
    /\ range_to_iter(gen_start, gen_end, gen_included, gen_step, gen_checks).panic
    /\ gen_pc' = "panic"
    /\ UNCHANGED <<gen_start, gen_end, gen_included, gen_step, gen_checks,
                   gen_rev, gen_it, gen_out>>
    /\ UNCHANGED notGen

\* the pipeline pulls one integer
GenYield ==
    /\ gen_pc = "iter"
    /\ Len(gen_out) < GenCap
    /\ LET r == BoxedNext(gen_it, gen_rev, gen_checks)
       IN  /\ r.res = "some"
           /\ gen_it' = r.it
           /\ gen_out' = Append(gen_out, r.val)
    /\ UNCHANGED <<gen_pc, gen_start, gen_end, gen_included, gen_step, gen_checks, gen_rev>>
    /\ UNCHANGED notGen

\* the iterator reports the end of the stream
GenEnd ==
    /\ gen_pc = "iter"
    /\ BoxedNext(gen_it, gen_rev, gen_checks).res = "none"
    /\ gen_pc' = "end"
    /\ UNCHANGED <<gen_start, gen_end, gen_included, gen_step, gen_checks,
                   gen_rev, gen_it, gen_out>>
    /\ UNCHANGED notGen

\* the cursor update overflows in a build with overflow checks
GenPanic ==
    /\ gen_pc = "iter"
    /\ BoxedNext(gen_it, gen_rev, gen_checks).res = "panic"
    /\ gen_pc' = "panic"
    /\ UNCHANGED <<gen_start, gen_end, gen_included, gen_step, gen_checks,
                   gen_rev, gen_it, gen_out>>
    /\ UNCHANGED notGen

GenNext ==
    \/ GenNew
    \/ GenNewPanic
    \/ GenYield
    \/ GenEnd
    \/ GenPanic

(***************************************************************************)
(* Condition and Select                                                    *)
(***************************************************************************)
\* ---- bounds of the condition model ----
MaxItemLen == 3        \* items are strings of at most MaxItemLen characters
FloatMantissaBits == 7 \* significant bits of a Float (f64::MANTISSA_DIGITS is 53)

\* Characters. "U4E2D" stands for a CJK ideograph: not ASCII, no case.
ItemChars == {"1", "5", "-", ".", "a", "B", " ", "U4E2D"}

\* Float literals that f64::from_str accepts and that are not finite
NonFiniteItems == { <<"N","a","N">>, <<"n","a","n">>, <<"i","n","f">>, <<"I","n","f">>,
                    <<"-","i","n","f">>, <<"-","I","n","f">> }

Items == (UNION {[1..n -> ItemChars] : n \in 0..MaxItemLen}) \cup NonFiniteItems

\* char::is_ascii_digit and the digit's value
DigitChars == {"0", "1", "2", "3", "4", "5", "6", "7", "8", "9"}
DigitVal(c) ==
    CASE c = "0" -> 0 [] c = "1" -> 1 [] c = "2" -> 2 [] c = "3" -> 3 [] c = "4" -> 4
      [] c = "5" -> 5 [] c = "6" -> 6 [] c = "7" -> 7 [] c = "8" -> 8 [] c = "9" -> 9

\* char::is_lowercase, char::is_uppercase, char::is_ascii, char::is_whitespace
IsLowercase(c) == c \in {"a", "n", "i", "f"}
IsUppercase(c) == c \in {"B", "N", "I"}
IsAscii(c) == c # "U4E2D"
IsWhitespace(c) == c = " "

\* char::to_ascii_lowercase
ToAsciiLower(c) ==
    CASE c = "A" -> "a" [] c = "B" -> "b" [] c = "N" -> "n" [] c = "I" -> "i" [] OTHER -> c

RECURSIVE Pow10(_)
Pow10(n) == IF n = 0 THEN 1 ELSE 10 * Pow10(n - 1)

\* A Float is held as an integer number of 1/FloatScale units.
FloatScale == Pow10(MaxItemLen)

\* the power of two p with p <= x < 2 * p, for x >= 1
RECURSIVE Binade(_, _)
Binade(x, p) == IF 2 * p > x THEN p ELSE Binade(x, 2 * p)

\* the multiple of q nearest to v >= 0, a tie going to the even multiple
RoundToMultiple(v, q) ==
    LET lo == v \div q
        r == v % q
    IN  IF 2 * r < q THEN lo * q
        ELSE IF 2 * r > q THEN (lo + 1) * q
        ELSE IF lo % 2 = 0 THEN lo * q ELSE (lo + 1) * q

\* The Float nearest to the value v (in 1/FloatScale units), as `as Float`
\* and f64::from_str produce it.  A magnitude of 2^FloatMantissaBits or more
\* is rounded to FloatMantissaBits significant bits, ties to even.  Below
\* that an integer is exact, and a decimal literal keeps its digits: the
\* literals of the model are short enough for their Floats to be distinct
\* and ordered as the decimals are.
RoundFloat(v) ==
    LET a == IF v < 0 THEN -v ELSE v
        ulp == Binade(a \div FloatScale, 1) \div Pow2(FloatMantissaBits - 1)
    IN  IF a < Pow2(FloatMantissaBits) * FloatScale THEN v
        ELSE (IF v < 0 THEN -1 ELSE 1) * RoundToMultiple(a, ulp * FloatScale)

RECURSIVE DigitsValue(_)
DigitsValue(s) ==
    IF s = <<>> THEN 0
    ELSE 10 * DigitsValue(SubSeq(s, 1, Len(s) - 1)) + DigitVal(s[Len(s)])

AllDigits(s) == \A i \in 1..Len(s) : s[i] \in DigitChars

HasSign(s) == s # <<>> /\ s[1] \in {"+", "-"}
Unsigned(s) == IF HasSign(s) THEN Tail(s) ELSE s
SignOf(s) == IF s # <<>> /\ s[1] = "-" THEN -1 ELSE 1

\* str::parse::<Integer>(): an optional sign and at least one digit.
\* (The items of the model are too short to leave the Integer range.)
ParseInteger(s) ==
    IF Unsigned(s) # <<>> /\ AllDigits(Unsigned(s))
    THEN [ok |-> TRUE, v |-> SignOf(s) * DigitsValue(Unsigned(s))]
    ELSE [ok |-> FALSE, v |-> 0]

\* str::parse::<Float>(): an optional sign, then inf / infinity / nan in any
\* case, or digits with at most one '.' and at least one digit.  (No item of
\* the model holds an exponent.)  v is the value in 1/FloatScale units.
ParseFloat(s) ==
    LET b == Unsigned(s)
        low == [i \in 1..Len(b) |-> ToAsciiLower(b[i])]
        dots == {i \in 1..Len(b) : b[i] = "."}
        p == IF dots = {} THEN Len(b) + 1 ELSE CHOOSE i \in dots : TRUE
        int == SubSeq(b, 1, p - 1)
        frac == SubSeq(b, p + 1, Len(b))
    IN  IF low \in { <<"i","n","f">>, <<"n","a","n">>,
                     <<"i","n","f","i","n","i","t","y">> }
        THEN [ok |-> TRUE, finite |-> FALSE, v |-> 0]
        ELSE IF /\ Cardinality(dots) <= 1
                /\ AllDigits(int) /\ AllDigits(frac)
                /\ Len(int) + Len(frac) >= 1
        THEN [ok |-> TRUE, finite |-> TRUE,
              v |-> RoundFloat(SignOf(s) * (DigitsValue(int) * FloatScale
                                 + DigitsValue(frac) * Pow10(MaxItemLen - Len(frac))))]
        ELSE [ok |-> FALSE, finite |-> FALSE, v |-> 0]

\* enum Num { Integer(Integer), Float(Float) }
NumInteger(i) == [t |-> "Integer", v |-> i]
NumFloat(f) == [t |-> "Float", v |-> f]
NoNum == [t |-> "None", v |-> 0]

\* impl FromStr for Num as it would be without the `f.is_finite()` test
ParseNumNoFiniteTest(s) ==
    IF ParseInteger(s).ok
    THEN [ok |-> TRUE, num |-> NumInteger(ParseInteger(s).v)]
    ELSE IF ParseFloat(s).ok
    THEN [ok |-> TRUE, num |-> NumFloat(ParseFloat(s).v)]
    ELSE [ok |-> FALSE, num |-> NoNum]

\* impl FromStr for Num: the integer grammar first, else a finite float
ParseNum(s) ==
    IF ParseInteger(s).ok
    THEN [ok |-> TRUE, num |-> NumInteger(ParseInteger(s).v)]
    ELSE IF ParseFloat(s).ok /\ ParseFloat(s).finite
    THEN [ok |-> TRUE, num |-> NumFloat(ParseFloat(s).v)]
    ELSE [ok |-> FALSE, num |-> NoNum]

\* `*a as Float` for Num::Integer(a), and the Float of a Num::Float
AsFloat(n) == IF n.t = "Integer" THEN RoundFloat(n.v * FloatScale) ELSE n.v

\* impl PartialOrd for Num and impl PartialEq for Num
NumGe(a, b) == IF a.t = "Integer" /\ b.t = "Integer" THEN a.v >= b.v ELSE AsFloat(a) >= AsFloat(b)
NumLe(a, b) == IF a.t = "Integer" /\ b.t = "Integer" THEN a.v <= b.v ELSE AsFloat(a) <= AsFloat(b)
NumEq(a, b) == IF a.t = "Integer" /\ b.t = "Integer" THEN a.v = b.v ELSE AsFloat(a) = AsFloat(b)

\* Regex of Select::new_reg_match, \A(?:pattern)\z, for patterns made of
\* literal characters and '.'
RegexIsMatch(pattern, input) ==
    /\ Len(pattern) = Len(input)
    /\ \A i \in 1..Len(input) : pattern[i] = "." \/ pattern[i] = input[i]

\* ---- the Select values of the model ----
LenBounds == {NoneU, 1, 2}
\* absent, 1, 5, 1.5, -0.5 and 512.0
NumBounds == {NoNum, NumInteger(1), NumInteger(5),
              NumFloat(15 * (FloatScale \div 10)), NumFloat(-5 * (FloatScale \div 10)),
              NumFloat(512 * FloatScale)}
RegexPatterns == { <<"1">>, <<"1", ".">>, <<".", ".", ".">> }

Selects ==
    {[kind |-> "TextLenRange", min |-> a, max |-> b] : a \in LenBounds, b \in LenBounds}
    \cup {[kind |-> "TextLenSpec", spec |-> n] : n \in 0..2}
    \cup {[kind |-> "NumRange", min |-> a, max |-> b] : a \in NumBounds, b \in NumBounds}
    \cup {[kind |-> "NumSpec", spec |-> n] : n \in NumBounds \ {NoNum}}
    \cup {[kind |-> "Num", integer |-> i] : i \in {"None", "SomeTrue", "SomeFalse"}}
    \cup {[kind |-> "Text", mode |-> m] :
            m \in {"Upper", "Lower", "Ascii", "NonAscii", "Empty", "Blank"}}
    \cup {[kind |-> "RegMatch", regex |-> r] : r \in RegexPatterns}

\* Select::select
select(sel, input) ==
    CASE sel.kind = "TextLenRange" ->
            /\ (sel.min = NoneU \/ Len(input) >= sel.min)
            /\ (sel.max = NoneU \/ Len(input) <= sel.max)
      [] sel.kind = "TextLenSpec" -> Len(input) = sel.spec
      [] sel.kind = "NumRange" ->
            IF ParseNum(input).ok
            THEN /\ (sel.min = NoNum \/ NumGe(ParseNum(input).num, sel.min))
                 /\ (sel.max = NoNum \/ NumLe(ParseNum(input).num, sel.max))
            ELSE FALSE
      [] sel.kind = "NumSpec" ->
            IF ParseNum(input).ok THEN NumEq(ParseNum(input).num, sel.spec) ELSE FALSE
      [] sel.kind = "Num" ->
            (CASE sel.integer = "SomeTrue" -> ParseInteger(input).ok
               [] sel.integer = "SomeFalse" ->
                     /\ ~ParseInteger(input).ok
                     /\ ParseFloat(input).ok /\ ParseFloat(input).finite
               [] sel.integer = "None" -> ParseFloat(input).ok /\ ParseFloat(input).finite)
      [] sel.kind = "Text" ->
            (CASE sel.mode = "Upper" -> ~\E i \in 1..Len(input) : IsLowercase(input[i])
               [] sel.mode = "Lower" -> ~\E i \in 1..Len(input) : IsUppercase(input[i])
               [] sel.mode = "Ascii" -> \A i \in 1..Len(input) : IsAscii(input[i])
               [] sel.mode = "NonAscii" -> \A i \in 1..Len(input) : ~IsAscii(input[i])
               [] sel.mode = "Empty" -> input = <<>>
               [] sel.mode = "Blank" -> \A i \in 1..Len(input) : IsWhitespace(input[i]))
      [] sel.kind = "RegMatch" -> RegexIsMatch(sel.regex, input)

\* Condition::test as it would be if an item that is not a number were
\* rejected before the negation is applied
ConditionTestRejectsFirst(sel, not, input) ==
    IF not
    THEN IF sel.kind \in {"NumRange", "NumSpec"} /\ ~ParseNum(input).ok
         THEN FALSE
         ELSE ~select(sel, input)
    ELSE select(sel, input)

\* Condition::new followed by Condition::test
ConditionTest(sel, not, input) ==
    IF not THEN ~select(sel, input) ELSE select(sel, input)

CondInit ==
    /\ cond_pc = "ready"
    /\ cond_select \in Selects
    /\ cond_input \in Items
    /\ cond_yes = FALSE
    /\ cond_not = FALSE

CondIdle ==
    /\ cond_pc = "idle"
    /\ cond_select = [kind |-> "Text", mode |-> "Empty"]
    /\ cond_input = <<>>
    /\ cond_yes = FALSE
    /\ cond_not = FALSE

\* the item is tested under select.yes() and under select.not()
CondTest ==
    /\ cond_pc = "ready"
    /\ cond_yes' = ConditionTest(cond_select, FALSE, cond_input)
    /\ cond_not' = ConditionTest(cond_select, TRUE, cond_input)
    /\ cond_pc' = "tested"
    /\ UNCHANGED <<cond_select, cond_input>>
    /\ UNCHANGED notCond

CondNext ==
    \/ CondTest

(***************************************************************************)
(* :join with a batch size  --  ChunkJoin                                  *)
(***************************************************************************)
\* ---- bounds of the chunked join model ----
MaxUpstream == 7       \* number of upstream items
MaxBatch == 3          \* batch size

JoinItems == { <<"a">>, <<"b">> }
Upstreams == UNION {[1..n -> JoinItems] : n \in 0..MaxUpstream}
JoinInfos == [delimiter : { <<>>, <<",">> }, prefix : { <<>>, <<"[">> }, postfix : { <<>>, <<"]">> }]

\* [String]::join(delimiter)
RECURSIVE StrJoin(_, _)
StrJoin(items, delimiter) ==
    IF items = <<>> THEN <<>>
    ELSE IF Len(items) = 1 THEN items[1]
    ELSE items[1] \o delimiter \o StrJoin(Tail(items), delimiter)

\* format!("{}{}{}", prefix, chunk.join(delimiter), postfix)
JoinFormat(info, chunk) == info.prefix \o StrJoin(chunk, info.delimiter) \o info.postfix

Min(a, b) == IF a <= b THEN a ELSE b

\* ChunkJoin::next as it would be if a chunk shorter than group_size were dropped
ChunkJoinNextDropsPartial(source, group_size, info) ==
    LET n == Min(group_size, Len(source))
        chunk == SubSeq(source, 1, n)
        rest == SubSeq(source, n + 1, Len(source))
    IN  IF n < group_size
        THEN [some |-> FALSE, item |-> <<>>, taken |-> n, source |-> rest]
        ELSE [some |-> TRUE, item |-> JoinFormat(info, chunk), taken |-> n, source |-> rest]

\* ChunkJoin::next: up to group_size items are taken from the source; an empty
\* chunk ends the stream, any other chunk is joined into one item
ChunkJoinNext(source, group_size, info) ==
    LET n == Min(group_size, Len(source))
        chunk == SubSeq(source, 1, n)
        rest == SubSeq(source, n + 1, Len(source))
    IN  IF chunk = <<>>
        THEN [some |-> FALSE, item |-> <<>>, taken |-> 0, source |-> rest]
        ELSE [some |-> TRUE, item |-> JoinFormat(info, chunk), taken |-> n, source |-> rest]

JoinInit ==
    /\ cj_pc = "op"
    /\ cj_upstream \in Upstreams
    /\ cj_batch \in 1..MaxBatch
    /\ cj_info \in JoinInfos
    /\ cj_source = <<>>
    /\ cj_out = <<>>
    /\ cj_taken = <<>>

JoinIdle ==
    /\ cj_pc = "idle"
    /\ cj_upstream = <<>>
    /\ cj_batch = 1
    /\ cj_info = [delimiter |-> <<>>, prefix |-> <<>>, postfix |-> <<>>]
    /\ cj_source = <<>>
    /\ cj_out = <<>>
    /\ cj_taken = <<>>

\* Op::wrap for Op::Join with Some(count), count > 0: ChunkJoin { source: pipe, .. }
JoinWrap ==
    /\ cj_pc = "op"
    /\ cj_batch > 0
    /\ cj_source' = cj_upstream
    /\ cj_pc' = "iter"
    /\ UNCHANGED <<cj_upstream, cj_batch, cj_info, cj_out, cj_taken>>
    /\ UNCHANGED notJoin

\* one call of ChunkJoin::next that yields a joined item
ChunkJoinYield ==
    /\ cj_pc = "iter"
    /\ LET r == ChunkJoinNext(cj_source, cj_batch, cj_info)
       IN  /\ r.some
           /\ cj_out' = Append(cj_out, r.item)
           /\ cj_taken' = Append(cj_taken, r.taken)
           /\ cj_source' = r.source
    /\ UNCHANGED <<cj_pc, cj_upstream, cj_batch, cj_info>>
    /\ UNCHANGED notJoin

\* one call of ChunkJoin::next that returns None
ChunkJoinEnd ==
    /\ cj_pc = "iter"
    /\ LET r == ChunkJoinNext(cj_source, cj_batch, cj_info)
       IN  /\ ~r.some
           /\ cj_source' = r.source
    /\ cj_pc' = "end"
    /\ UNCHANGED <<cj_upstream, cj_batch, cj_info, cj_out, cj_taken>>
    /\ UNCHANGED notJoin

JoinNext ==
    \/ JoinWrap
    \/ ChunkJoinYield
    \/ ChunkJoinEnd

\* ---- the sequences the documentation of :gen describes (unbounded integers) ----
Abs(x) == IF x < 0 THEN -x ELSE x

Reverse(s) == [i \in 1..Len(s) |-> s[Len(s) + 1 - i]]

IsPrefix(s, t) == Len(s) <= Len(t) /\ \A i \in 1..Len(s) : s[i] = t[i]

\* the last integer inside the bound: end, or end - 1 when the end is exclusive
LastOf(end, included) == IF included THEN end ELSE end - 1

\* number of terms of start, start + d, start + 2d, ... that are <= last (d > 0)
TermCount(start, last, d) == IF start > last THEN 0 ELSE ((last - start) \div d) + 1

\* start, start + d, start + 2d, ... up to the bound
Ascending(start, end, included, d) ==
    [k \in 1..TermCount(start, LastOf(end, included), d) |-> start + (k - 1) * d]

\* last, last - d, last - 2d, ... down to start
Descending(start, end, included, d) ==
    [k \in 1..TermCount(start, LastOf(end, included), d) |->
        LastOf(end, included) - (k - 1) * d]

(***************************************************************************)
(* run: parse, build the pipe, hand it to the output; main and RpErr       *)
(***************************************************************************)
\* ---- bounds of the run model ----
MaxOps == 2            \* number of operators on the command line

\* RpErr, in the order of the enum
ErrKinds == <<"ParseConfigTokenErr", "ParseInputTokenErr", "ParseOpTokenErr",
              "ParseOutputTokenErr", "ArgParseErr", "UnexpectedRemaining", "MissingArg",
              "UnknownArgs", "ReadClipboardTextErr", "ReadFromFileErr",
              "WriteToClipboardErr", "OpenFileErr", "WriteToFileErr", "FormatStringErr",
              "ParseRegexErr">>

\* RangeFrom<u8>::next on `code = 0u8..`: the value yielded and the range left
CodeRangeNext(code) == [val |-> code, rest |-> code + 1]

\* RpErr::exit_code: `let mut code = 0u8..;` and one `code.next().unwrap()`
\* in the arm of the variant
exit_code(kind) ==
    LET code == 0
    IN  CASE kind = "ParseConfigTokenErr" -> CodeRangeNext(code).val
          [] kind = "ParseInputTokenErr" -> CodeRangeNext(code).val
          [] kind = "ParseOpTokenErr" -> CodeRangeNext(code).val
          [] kind = "ParseOutputTokenErr" -> CodeRangeNext(code).val
          [] kind = "ArgParseErr" -> CodeRangeNext(code).val
          [] kind = "UnexpectedRemaining" -> CodeRangeNext(code).val
          [] kind = "MissingArg" -> CodeRangeNext(code).val
          [] kind = "UnknownArgs" -> CodeRangeNext(code).val
          [] kind = "ReadClipboardTextErr" -> CodeRangeNext(code).val
          [] kind = "ReadFromFileErr" -> CodeRangeNext(code).val
          [] kind = "WriteToClipboardErr" -> CodeRangeNext(code).val
          [] kind = "OpenFileErr" -> CodeRangeNext(code).val
          [] kind = "WriteToFileErr" -> CodeRangeNext(code).val
          [] kind = "FormatStringErr" -> CodeRangeNext(code).val
          [] kind = "ParseRegexErr" -> CodeRangeNext(code).val

\* ---- the command lines of the model ----
\* parse_configs: the option sets tried
ConfigSets == { {}, {"DryRun"}, {"Token"}, {"Verbose", "DryRun"}, {"Help"}, {"Version"} }

\* what is wrong with the pipeline text, if anything
Defects == {"none", "missing_arg", "bad_arg", "arg_remaining", "bad_regex",
            "trailing", "no_token"}
\* the defects an argument list can have, and those a --token text can have
ArgsDefects == Defects \ {"no_token"}
TokenDefects == {"none", "no_token", "trailing", "bad_arg", "bad_regex"}

InputKinds == {"Of", "File", "Clip", "StdIn"}
OpKinds == {"Peek", "PeekFile", "Upper", "Count", "Sort", "Join", "ChunkJoin"}
OutputKinds == {"StdOut", "File", "Clip"}
OpLists == UNION {[1..n -> OpKinds] : n \in 0..MaxOps}

\* the items the Source holds
SourceItems == { <<>>, << <<"b">>, <<"a">> >> }

\* the I/O operation that fails in the run, if any
Faults == {"none", "clip_read", "open_in", "read_in", "read_stdin", "open_peek",
           "write_peek", "open_out", "write_out", "clip_write"}

\* batch size and JoinInfo of the :join operators of the model
RunBatch == 2
RunJoinInfo == [delimiter |-> <<",">>, prefix |-> <<>>, postfix |-> <<>>]

\* parse::args::parse: the error it returns for a defective command line
ArgsParseError(defect) ==
    CASE defect = "missing_arg" -> "MissingArg"
      [] defect = "bad_arg" -> "ArgParseErr"
      [] defect = "arg_remaining" -> "UnexpectedRemaining"
      [] defect = "bad_regex" -> "ParseRegexErr"
      [] defect = "trailing" -> "UnknownArgs"
      [] OTHER -> "none"

\* config::parse_eval_token: a missing token is MissingArg and an unconsumed
\* rest is UnexpectedRemaining. An argument that does not parse makes the token
\* parsers fall back to their defaults, so the text from the command on is left
\* over. A regular expression that does not compile is reported by the token
\* parser itself (TokenParseTerminates).
TokenParseError(defect) ==
    CASE defect = "no_token" -> "MissingArg"
      [] defect = "trailing" -> "UnexpectedRemaining"
      [] defect = "bad_arg" -> "UnexpectedRemaining"
      [] defect = "bad_regex" -> "ParseRegexErr"
      [] OTHER -> "none"

\* parse_cond_reg_match: `Err(rp_err) => rp_err.termination()` ends the
\* process inside the token parser
TokenParseTerminates(defect) == defect = "bad_regex"

\* ---- strings ----
\* u8::to_ascii_uppercase
ToAsciiUpper(c) == CASE c = "a" -> "A" [] c = "b" -> "B" [] OTHER -> c

\* the byte of the characters that items of the run model hold
CharByte(c) ==
    CASE c = "," -> 44 [] c = "0" -> 48 [] c = "1" -> 49 [] c = "2" -> 50 [] c = "3" -> 51
      [] c = "4" -> 52 [] c = "A" -> 65 [] c = "B" -> 66 [] c = "a" -> 97 [] c = "b" -> 98

\* str <= str
RECURSIVE StrLe(_, _)
StrLe(s, t) ==
    IF s = <<>> THEN TRUE
    ELSE IF t = <<>> THEN FALSE
    ELSE IF CharByte(s[1]) # CharByte(t[1]) THEN CharByte(s[1]) < CharByte(t[1])
    ELSE StrLe(Tail(s), Tail(t))

\* usize::to_string
RECURSIVE ToDecimal(_)
ToDecimal(n) ==
    LET d == n % 10
        c == CASE d = 0 -> "0" [] d = 1 -> "1" [] d = 2 -> "2" [] d = 3 -> "3" [] d = 4 -> "4"
               [] d = 5 -> "5" [] d = 6 -> "6" [] d = 7 -> "7" [] d = 8 -> "8" [] d = 9 -> "9"
    IN  IF n < 10 THEN <<c>> ELSE ToDecimal(n \div 10) \o <<c>>

\* insertion of an item after the items that are not greater (stable)
RECURSIVE SortedInsert(_, _)
SortedInsert(sorted, item) ==
    IF sorted = <<>> THEN <<item>>
    ELSE IF StrLe(sorted[1], item) THEN <<sorted[1]>> \o SortedInsert(Tail(sorted), item)
    ELSE <<item>> \o sorted

\* Itertools::sorted_by_key(|item| item.to_string())
RECURSIVE SortItems(_)
SortItems(items) ==
    IF items = <<>> THEN <<>>
    ELSE SortedInsert(SortItems(SubSeq(items, 1, Len(items) - 1)), items[Len(items)])

\* ---- the pipe ----
\* A Pipe is a base iterator (the Source, or the Vec / Once an eager operator
\* left) under a stack of lazy adapters.  The record also carries what the
\* run has done to the outside world.
\*   base      items the base iterator has not produced yet
\*   isSource  the base iterator is the Source
\*   opened    the input file has been opened
\*   layers    the lazy adapters, innermost first
\*   reads     number of reads made on the Source
\*   peeked    items :peek has printed or written
\*   peekFile  the :peek file has been created or truncated
\*   err       the error termination() was called with, "none" otherwise
\*   failed    the I/O operation of the Source or of :peek that has failed, "none" otherwise
EmptyPipe ==
    [input |-> "Of", fault |-> "none", base |-> <<>>, isSource |-> TRUE, opened |-> FALSE,
     layers |-> <<>>, reads |-> 0, peeked |-> <<>>, peekFile |-> FALSE, err |-> "none",
     failed |-> "none"]

Terminated(st, kind) ==
    [res |-> "exit", item |-> <<>>, st |-> [st EXCEPT !.err = kind, !.failed = st.fault]]

\* next() of the base iterator: Input::try_into's iterator for the Source
SourceNext(st) ==
    IF ~st.isSource
    THEN IF st.base = <<>>
         THEN [res |-> "none", item |-> <<>>, st |-> st]
         ELSE [res |-> "some", item |-> Head(st.base), st |-> [st EXCEPT !.base = Tail(@)]]
    ELSE IF st.input = "File" /\ ~st.opened /\ st.fault = "open_in"
    THEN Terminated([st EXCEPT !.reads = @ + 1], "OpenFileErr")
    ELSE IF st.input = "StdIn" /\ st.fault = "read_stdin" /\ st.failed = "none"
    THEN \* lines().take_while(Result::is_ok): the Err line ends the iterator
         [res |-> "none", item |-> <<>>,
          st |-> [st EXCEPT !.base = <<>>, !.reads = @ + 1, !.failed = "read_stdin"]]
    ELSE IF st.base = <<>>
    THEN [res |-> "none", item |-> <<>>,
          st |-> [st EXCEPT !.opened = (st.input = "File"), !.reads = @ + 1]]
    ELSE IF st.input = "File" /\ st.fault = "read_in"
    THEN Terminated([st EXCEPT !.opened = TRUE, !.reads = @ + 1], "ReadFromFileErr")
    ELSE [res |-> "some", item |-> Head(st.base),
          st |-> [st EXCEPT !.base = Tail(@), !.opened = (st.input = "File"),
                            !.reads = @ + 1]]

\* Pipe::next through the k innermost adapters
RECURSIVE PipeNext(_, _)
RECURSIVE TakeChunk(_, _, _)

\* ChunkJoin::next's loop: up to n items from below adapter k
TakeChunk(k, st, n) ==
    IF n = 0 THEN [res |-> "none", items |-> <<>>, st |-> st]
    ELSE LET r == PipeNext(k, st)
         IN  IF r.res = "some"
             THEN LET more == TakeChunk(k, r.st, n - 1)
                  IN  [res |-> more.res, items |-> <<r.item>> \o more.items, st |-> more.st]
             ELSE [res |-> r.res, items |-> <<>>, st |-> r.st]

PipeNext(k, st) ==
    IF k = 0 THEN SourceNext(st)
    ELSE LET op == st.layers[k]
         IN  IF op = "ChunkJoin"
             THEN LET c == TakeChunk(k - 1, st, RunBatch)
                  IN  IF c.res = "exit" THEN [res |-> "exit", item |-> <<>>, st |-> c.st]
                      ELSE IF c.items = <<>> THEN [res |-> "none", item |-> <<>>, st |-> c.st]
                      ELSE [res |-> "some", item |-> JoinFormat(RunJoinInfo, c.items),
                            st |-> c.st]
             ELSE LET r == PipeNext(k - 1, st)
                  IN  IF r.res # "some" THEN r
                      ELSE CASE op = "Peek" ->
                                  [r EXCEPT !.st.peeked = Append(@, r.item)]
                             [] op = "PeekFile" ->
                                  IF st.fault = "write_peek"
                                  THEN Terminated(r.st, "WriteToFileErr")
                                  ELSE [r EXCEPT !.st.peeked = Append(@, r.item)]
                             [] op = "Upper" ->
                                  [r EXCEPT !.item = [i \in 1..Len(r.item) |->
                                                        ToAsciiUpper(r.item[i])]]

\* the pipe is consumed to its end: Iterator::count, collect, join, sorted_by_key
RECURSIVE Drain(_)
Drain(st) ==
    LET r == PipeNext(Len(st.layers), st)
    IN  IF r.res = "some"
        THEN LET more == Drain(r.st)
             IN  [exit |-> more.exit, items |-> <<r.item>> \o more.items, st |-> more.st]
        ELSE [exit |-> (r.res = "exit"), items |-> <<>>, st |-> r.st]

\* Input::try_into: the clipboard is read at once, every other Source lazily
try_into(input, fault, items) ==
    LET st == [EmptyPipe EXCEPT !.input = input, !.fault = fault, !.base = items]
    IN  IF input = "Clip"
        THEN IF fault = "clip_read"
             THEN [err |-> "ReadClipboardTextErr",
                   st |-> [st EXCEPT !.reads = 1, !.failed = "clip_read"]]
             ELSE [err |-> "none",
                   st |-> [st EXCEPT !.isSource = FALSE, !.reads = 1 + Len(items)]]
        ELSE [err |-> "none", st |-> st]

\* the Vec or Once an eager operator leaves behind
Materialised(st, items) == [st EXCEPT !.base = items, !.isSource = FALSE, !.layers = <<>>]

\* Op::wrap
wrap(op, st) ==
    CASE op \in {"Peek", "Upper", "ChunkJoin"} -> [st EXCEPT !.layers = Append(@, op)]
      [] op = "PeekFile" ->
            IF st.fault = "open_peek"
            THEN [st EXCEPT !.err = "OpenFileErr", !.failed = "open_peek"]
            ELSE [st EXCEPT !.layers = Append(@, op), !.peekFile = TRUE]
      [] op = "Count" ->
            LET d == Drain(st)
            IN  IF d.exit THEN d.st ELSE Materialised(d.st, <<ToDecimal(Len(d.items))>>)
      [] op = "Sort" ->
            LET d == Drain(st)
            IN  IF d.exit THEN d.st ELSE Materialised(d.st, SortItems(d.items))
      [] op = "Join" ->
            LET d == Drain(st)
            IN  IF d.exit THEN d.st
                ELSE Materialised(d.st, <<JoinFormat(RunJoinInfo, d.items)>>)

\* ---- the run as a state machine ----
ParseErrorOf(args) ==
    IF "Token" \in args.configs THEN TokenParseError(args.defect)
    ELSE ArgsParseError(args.defect)

\* whether the parser ends the process instead of returning its error
ParseTerminates(args) ==
    "Token" \in args.configs /\ TokenParseTerminates(args.defect)

CommandLines ==
    { a \in [configs : ConfigSets, defect : Defects, input : InputKinds, ops : OpLists,
             output : OutputKinds, items : SourceItems, fault : Faults] :
        /\ a.defect \in (IF "Token" \in a.configs THEN TokenDefects ELSE ArgsDefects)
        \* a command line that does not parse names no pipeline worth telling apart
        /\ (a.defect # "none" \/ a.configs \in {{"Help"}, {"Version"}})
              => (a.ops = <<>> /\ a.output = "StdOut" /\ a.fault \in {"none", "clip_read"}) }

NoOutput == [opened |-> FALSE, written |-> <<>>, failed |-> "none"]

RunIdle ==
    /\ run_pc = "idle"
    /\ run_args = [configs |-> {}, defect |-> "none", input |-> "Of", ops |-> <<>>,
                   output |-> "StdOut", items |-> <<>>, fault |-> "none"]
    /\ run_parsed = FALSE
    /\ run_ops = <<>>
    /\ run_st = EmptyPipe
    /\ run_out = NoOutput
    /\ run_printed = "none"
    /\ run_result = "none"
    /\ run_exit = -1

RunInit ==
    /\ run_pc = "start"
    /\ run_args \in CommandLines
    /\ run_parsed = FALSE
    /\ run_ops = <<>>
    /\ run_st = EmptyPipe
    /\ run_out = NoOutput
    /\ run_printed = "none"
    /\ run_result = "none"
    /\ run_exit = -1

\* run: --help
RunHelp ==
    /\ run_pc = "start"
    /\ "Help" \in run_args.configs
    /\ run_printed' = "help"
    /\ run_result' = "Ok"
    /\ run_pc' = "returned"
    /\ UNCHANGED <<run_args, run_parsed, run_ops, run_st, run_out, run_exit>>
    /\ UNCHANGED notRun

\* run: --version
RunVersion ==
    /\ run_pc = "start"
    /\ "Help" \notin run_args.configs
    /\ "Version" \in run_args.configs
    /\ run_printed' = "version"
    /\ run_result' = "Ok"
    /\ run_pc' = "returned"
    /\ UNCHANGED <<run_args, run_parsed, run_ops, run_st, run_out, run_exit>>
    /\ UNCHANGED notRun

\* run as it would be if the input were turned into a pipe before the
\* parser's error is returned
RunParseErrAfterInput ==
    /\ run_pc = "start"
    /\ "Help" \notin run_args.configs
    /\ "Version" \notin run_args.configs
    /\ ParseErrorOf(run_args) # "none"
    /\ ~ParseTerminates(run_args)
    /\ run_result' = ParseErrorOf(run_args)
    /\ run_pc' = "returned"
    /\ run_st' = try_into(run_args.input, run_args.fault, run_args.items).st
    /\ UNCHANGED <<run_args, run_parsed, run_ops, run_out, run_printed, run_exit>>
    /\ UNCHANGED notRun

\* run: the parser returns an error and `?` returns it
RunParseErr ==
    /\ run_pc = "start"
    /\ "Help" \notin run_args.configs
    /\ "Version" \notin run_args.configs
    /\ ParseErrorOf(run_args) # "none"
    /\ ~ParseTerminates(run_args)
    /\ run_result' = ParseErrorOf(run_args)
    /\ run_pc' = "returned"
    /\ UNCHANGED <<run_args, run_parsed, run_ops, run_st, run_out, run_printed, run_exit>>
    /\ UNCHANGED notRun

\* run: the token parser calls termination() on a regular expression that
\* does not compile; run does not return
RunParseExit ==
    /\ run_pc = "start"
    /\ "Help" \notin run_args.configs
    /\ "Version" \notin run_args.configs
    /\ ParseErrorOf(run_args) # "none"
    /\ ParseTerminates(run_args)
    /\ run_st' = [run_st EXCEPT !.err = ParseErrorOf(run_args)]
    /\ run_exit' = exit_code(ParseErrorOf(run_args))
    /\ run_pc' = "exited"
    /\ UNCHANGED <<run_args, run_parsed, run_ops, run_out, run_printed, run_result>>
    /\ UNCHANGED notRun

\* run: the parser returns (input, ops, output); --verbose prints them
RunParseOk ==
    /\ run_pc = "start"
    /\ "Help" \notin run_args.configs
    /\ "Version" \notin run_args.configs
    /\ ParseErrorOf(run_args) = "none"
    /\ run_parsed' = TRUE
    /\ run_ops' = run_args.ops
    /\ run_printed' = IF "Verbose" \in run_args.configs THEN "pipe_info" ELSE "none"
    /\ run_pc' = "parsed"
    /\ UNCHANGED <<run_args, run_st, run_out, run_result, run_exit>>
    /\ UNCHANGED notRun

\* run: input.try_into()?
RunTryInto ==
    /\ run_pc = "parsed"
    /\ LET r == try_into(run_args.input, run_args.fault, run_args.items)
       IN  /\ run_st' = r.st
           /\ run_result' = IF r.err = "none" THEN run_result ELSE r.err
           /\ run_pc' = IF r.err = "none" THEN "wrapping" ELSE "returned"
    /\ UNCHANGED <<run_args, run_parsed, run_ops, run_out, run_printed, run_exit>>
    /\ UNCHANGED notRun

\* run: one turn of `for op in ops { pipe = op.wrap(pipe, configs)?; }`;
\* termination() inside the wrap ends the process
RunWrap ==
    /\ run_pc = "wrapping"
    /\ run_ops # <<>>
    /\ LET st == wrap(Head(run_ops), run_st)
       IN  /\ run_st' = st
           /\ run_pc' = IF st.err = "none" THEN "wrapping" ELSE "exited"
           /\ run_exit' = IF st.err = "none" THEN run_exit ELSE exit_code(st.err)
    /\ run_ops' = Tail(run_ops)
    /\ UNCHANGED <<run_args, run_parsed, run_out, run_printed, run_result>>
    /\ UNCHANGED notRun

\* run: `if configs.contains(&Config::DryRun) { Ok(()) }`
RunDryRun ==
    /\ run_pc = "wrapping"
    /\ run_ops = <<>>
    /\ "DryRun" \in run_args.configs
    /\ run_result' = "Ok"
    /\ run_pc' = "returned"
    /\ UNCHANGED <<run_args, run_parsed, run_ops, run_st, run_out, run_printed, run_exit>>
    /\ UNCHANGED notRun

\* Output::handle, StdOut and File: the output file is opened
HandleOpen ==
    /\ run_pc = "wrapping"
    /\ run_ops = <<>>
    /\ "DryRun" \notin run_args.configs
    /\ run_args.output \in {"StdOut", "File"}
    /\ IF run_args.output = "File" /\ run_args.fault = "open_out"
       THEN /\ run_result' = "OpenFileErr"
            /\ run_pc' = "returned"
            /\ run_out' = [run_out EXCEPT !.failed = "open_out"]
       ELSE /\ run_out' = [run_out EXCEPT !.opened = (run_args.output = "File")]
            /\ run_pc' = "handling"
            /\ UNCHANGED run_result
    /\ UNCHANGED <<run_args, run_parsed, run_ops, run_st, run_printed, run_exit>>
    /\ UNCHANGED notRun

\* Output::handle, StdOut and File: one turn of `for item in pipe`
HandleItem ==
    /\ run_pc = "handling"
    /\ LET r == PipeNext(Len(run_st.layers), run_st)
       IN  /\ run_st' = r.st
           /\ CASE r.res = "exit" ->
                     /\ run_pc' = "exited"
                     /\ run_exit' = exit_code(r.st.err)
                     /\ UNCHANGED <<run_out, run_result>>
                [] r.res = "none" ->
                     /\ run_pc' = "returned"
                     /\ run_result' = "Ok"
                     /\ UNCHANGED <<run_out, run_exit>>
                [] r.res = "some" /\ run_args.output = "File"
                                  /\ run_args.fault = "write_out" ->
                     /\ run_pc' = "returned"
                     /\ run_result' = "WriteToFileErr"
                     /\ run_out' = [run_out EXCEPT !.failed = "write_out"]
                     /\ UNCHANGED run_exit
                [] OTHER ->
                     /\ run_out' = [run_out EXCEPT !.written = Append(@, r.item)]
                     /\ UNCHANGED <<run_pc, run_result, run_exit>>
    /\ UNCHANGED <<run_args, run_parsed, run_ops, run_printed>>
    /\ UNCHANGED notRun

\* Output::handle, Clip: the pipe is joined, then the clipboard is set
HandleClip ==
    /\ run_pc = "wrapping"
    /\ run_ops = <<>>
    /\ "DryRun" \notin run_args.configs
    /\ run_args.output = "Clip"
    /\ LET d == Drain(run_st)
       IN  /\ run_st' = d.st
           /\ IF d.exit
              THEN /\ run_pc' = "exited"
                   /\ run_exit' = exit_code(d.st.err)
                   /\ UNCHANGED <<run_out, run_result>>
              ELSE IF run_args.fault = "clip_write"
              THEN /\ run_pc' = "returned"
                   /\ run_result' = "WriteToClipboardErr"
                   /\ run_out' = [run_out EXCEPT !.failed = "clip_write"]
                   /\ UNCHANGED run_exit
              ELSE /\ run_pc' = "returned"
                   /\ run_result' = "Ok"
                   /\ run_out' = [run_out EXCEPT !.written = d.items]
                   /\ UNCHANGED run_exit
    /\ UNCHANGED <<run_args, run_parsed, run_ops, run_printed>>
    /\ UNCHANGED notRun

\* main: `if let Err(e) = run() { e.termination(); }`
Main ==
    /\ run_pc = "returned"
    /\ run_pc' = "exited"
    /\ run_exit' = IF run_result = "Ok" THEN 0 ELSE exit_code(run_result)
    /\ UNCHANGED <<run_args, run_parsed, run_ops, run_st, run_out, run_printed, run_result>>
    /\ UNCHANGED notRun

RunNext ==
    \/ RunHelp
    \/ RunVersion
    \/ RunParseErr
    \/ RunParseExit
    \/ RunParseOk
    \/ RunTryInto
    \/ RunWrap
    \/ RunDryRun
    \/ HandleOpen
    \/ HandleItem
    \/ HandleClip
    \/ Main

(***************************************************************************)
(* :take, :drop, :take while, :drop while                                  *)
(***************************************************************************)
\* ---- bounds of the take / drop model ----
MaxTdLen == 4          \* number of upstream items

TdItems == { <<"1">>, <<"a">>, <<"1", "5">> }
TdUpstreams == UNION {[1..n -> TdItems] : n \in 0..MaxTdLen}
TdSelects == { [kind |-> "Num", integer |-> "None"],
               [kind |-> "TextLenRange", min |-> NoneU, max |-> 1],
               [kind |-> "RegMatch", regex |-> <<"1">>] }
TdConds == [select : TdSelects, not : BOOLEAN]
TakeDropModes == {"Take", "Drop", "TakeWhile", "DropWhile"}

\* cond.test(s)
CondTestOf(cond, s) == ConditionTest(cond.select, cond.not, s)

NoneOf(source, flag) == [some |-> FALSE, item |-> <<>>, source |-> source, flag |-> flag]

\* Iterator::filter(p).next(): the first item for which the predicate has the value `keep`
RECURSIVE FilterNext(_, _, _, _)
FilterNext(source, flag, cond, keep) ==
    IF source = <<>> THEN NoneOf(source, flag)
    ELSE IF CondTestOf(cond, Head(source)) = keep
    THEN [some |-> TRUE, item |-> Head(source), source |-> Tail(source), flag |-> flag]
    ELSE FilterNext(Tail(source), flag, cond, keep)

\* Iterator::take_while(p).next() as it would be if the flag were never set
TakeWhileNextNoFlag(source, flag, cond) ==
    IF flag THEN NoneOf(source, flag)
    ELSE IF source = <<>> THEN NoneOf(source, flag)
    ELSE IF CondTestOf(cond, Head(source))
    THEN [some |-> TRUE, item |-> Head(source), source |-> Tail(source), flag |-> flag]
    ELSE FilterNext(Tail(source), flag, cond, TRUE)

\* Iterator::take_while(p).next(): the first failing item is taken from the
\* source, sets the flag and ends the iteration
TakeWhileNext(source, flag, cond) ==
    IF flag THEN NoneOf(source, flag)
    ELSE IF source = <<>> THEN NoneOf(source, flag)
    ELSE IF CondTestOf(cond, Head(source))
    THEN [some |-> TRUE, item |-> Head(source), source |-> Tail(source), flag |-> flag]
    ELSE NoneOf(Tail(source), TRUE)

\* Iterator::skip_while(p).next() as it would be if the flag were never set
RECURSIVE SkipWhileNextNoFlag(_, _, _)
SkipWhileNextNoFlag(source, flag, cond) ==
    IF source = <<>> THEN NoneOf(source, flag)
    ELSE IF flag \/ ~CondTestOf(cond, Head(source))
    THEN [some |-> TRUE, item |-> Head(source), source |-> Tail(source), flag |-> flag]
    ELSE SkipWhileNextNoFlag(Tail(source), flag, cond)

\* Iterator::skip_while(p).next(): find(|x| if flag || !p(x) { flag = true; true } else { false })
RECURSIVE SkipWhileNext(_, _, _)
SkipWhileNext(source, flag, cond) ==
    IF source = <<>> THEN NoneOf(source, flag)
    ELSE IF flag \/ ~CondTestOf(cond, Head(source))
    THEN [some |-> TRUE, item |-> Head(source), source |-> Tail(source), flag |-> TRUE]
    ELSE SkipWhileNext(Tail(source), flag, cond)

\* next() of the iterator Op::wrap builds for Op::TakeDrop { mode, cond }
TakeDropNext(mode, source, flag, cond) ==
    CASE mode = "Take" -> FilterNext(source, flag, cond, TRUE)
      [] mode = "Drop" -> FilterNext(source, flag, cond, FALSE)
      [] mode = "TakeWhile" -> TakeWhileNext(source, flag, cond)
      [] mode = "DropWhile" -> SkipWhileNext(source, flag, cond)

TdInit ==
    /\ td_pc = "op"
    /\ td_mode \in TakeDropModes
    /\ td_cond \in TdConds
    /\ td_upstream \in TdUpstreams
    /\ td_source = <<>>
    /\ td_flag = FALSE
    /\ td_out = <<>>

TdIdle ==
    /\ td_pc = "idle"
    /\ td_mode = "Take"
    /\ td_cond = [select |-> [kind |-> "Num", integer |-> "None"], not |-> FALSE]
    /\ td_upstream = <<>>
    /\ td_source = <<>>
    /\ td_flag = FALSE
    /\ td_out = <<>>

\* Op::wrap for Op::TakeDrop: the adapter is put around the pipe
TdWrap ==
    /\ td_pc = "op"
    /\ td_source' = td_upstream
    /\ td_flag' = FALSE
    /\ td_pc' = "iter"
    /\ UNCHANGED <<td_mode, td_cond, td_upstream, td_out>>
    /\ UNCHANGED notTd

\* one call of next() that yields an item
TdYield ==
    /\ td_pc = "iter"
    /\ LET r == TakeDropNext(td_mode, td_source, td_flag, td_cond)
       IN  /\ r.some
           /\ td_out' = Append(td_out, r.item)
           /\ td_source' = r.source
           /\ td_flag' = r.flag
    /\ UNCHANGED <<td_pc, td_mode, td_cond, td_upstream>>
    /\ UNCHANGED notTd

\* one call of next() that returns None
TdEnd ==
    /\ td_pc = "iter"
    /\ LET r == TakeDropNext(td_mode, td_source, td_flag, td_cond)
       IN  /\ ~r.some
           /\ td_source' = r.source
           /\ td_flag' = r.flag
    /\ td_pc' = "end"
    /\ UNCHANGED <<td_mode, td_cond, td_upstream, td_out>>
    /\ UNCHANGED notTd

TdNext ==
    \/ TdWrap
    \/ TdYield
    \/ TdEnd

(***************************************************************************)
(* :replace and :trim                                                      *)
(***************************************************************************)
\* ---- bounds of the text operator model ----
MaxTextLen == 4        \* items are strings of at most MaxTextLen characters
MaxPatternLen == 2     \* patterns are strings of at most MaxPatternLen characters

TxChars == {"a", "b", "A", " "}
TxPatternChars == {"a", "b", "A"}
TxTexts == UNION {[1..n -> TxChars] : n \in 0..MaxTextLen}
TxPatterns == UNION {[1..n -> TxPatternChars] : n \in 0..MaxPatternLen}

\* Option<String>
NoPattern == [some |-> FALSE, s |-> <<>>]
SomePattern(s) == [some |-> TRUE, s |-> s]

\* str::to_ascii_lowercase / String::make_ascii_lowercase
ToAsciiLowerStr(s) == [i \in 1..Len(s) |-> ToAsciiLower(s[i])]

\* ---- ReplaceArg ----
\* ReplaceArg::new
ReplaceArgNew(from, to, count, nocase) ==
    [kind |-> "Replace", from |-> IF nocase THEN ToAsciiLowerStr(from) ELSE from,
     to |-> to, count |-> count, nocase |-> nocase]

\* str::match_indices(pat): the start positions (from 1) of the matches of pat
\* that do not overlap, from the left; the empty pattern matches at every boundary
RECURSIVE MatchIndices(_, _, _)
MatchIndices(text, pat, i) ==
    IF i + Len(pat) - 1 > Len(text) THEN <<>>
    ELSE IF SubSeq(text, i, i + Len(pat) - 1) = pat
    THEN <<i>> \o MatchIndices(text, pat, i + (IF pat = <<>> THEN 1 ELSE Len(pat)))
    ELSE MatchIndices(text, pat, i + 1)

\* ReplaceArg::replace, `for (start, end) in matches`: last_end is the position
\* (from 1) of the first character not yet copied
RECURSIVE ReplaceLoop(_, _, _, _, _, _, _)
ReplaceLoop(text, to, patLen, matches, last_end, replaced_count, max_replacements) ==
    IF matches = <<>> \/ (max_replacements # NoneU /\ replaced_count >= max_replacements)
    THEN [result |-> <<>>, last_end |-> last_end, replaced_count |-> replaced_count]
    ELSE LET start == Head(matches)
             more == ReplaceLoop(text, to, patLen, Tail(matches), start + patLen,
                                 replaced_count + 1, max_replacements)
         IN  [more EXCEPT !.result = SubSeq(text, last_end, start - 1) \o to \o @]

\* ReplaceArg::replace
ReplaceArgReplace(arg, text, nocaseConfig) ==
    LET actual_text == IF arg.nocase \/ nocaseConfig THEN ToAsciiLowerStr(text) ELSE text
        loop == ReplaceLoop(text, arg.to, Len(arg.from), MatchIndices(actual_text, arg.from, 1),
                            1, 0, arg.count)
    IN  IF loop.replaced_count = 0 THEN text
        ELSE loop.result \o SubSeq(text, loop.last_end, Len(text))

\* ---- TrimArg ----
\* s.chars().filter(|&c| seen.insert(c)).collect()
RECURSIVE DedupChars(_)
DedupChars(s) ==
    IF s = <<>> THEN <<>>
    ELSE LET init == DedupChars(SubSeq(s, 1, Len(s) - 1))
         IN  IF s[Len(s)] \in Range(init) THEN init ELSE Append(init, s[Len(s)])

\* TrimArg::new
TrimArgNew(trim_mode, pattern, char_mode, nocase) ==
    LET lowered == IF nocase /\ pattern.some
                   THEN SomePattern(ToAsciiLowerStr(pattern.s)) ELSE pattern
        deduped == IF char_mode /\ lowered.some
                   THEN SomePattern(DedupChars(lowered.s)) ELSE lowered
    IN  [kind |-> "Trim", trim_mode |-> trim_mode, pattern |-> deduped,
         char_mode |-> char_mode, nocase |-> nocase]

\* str::strip_prefix(pattern).unwrap_or(s)
StripPrefix(s, pattern) ==
    IF Len(pattern) <= Len(s) /\ SubSeq(s, 1, Len(pattern)) = pattern
    THEN SubSeq(s, Len(pattern) + 1, Len(s)) ELSE s

\* str::strip_suffix(pattern).unwrap_or(s) as it would be if the suffix were
\* stripped as long as the string ends with it
RECURSIVE StripSuffixRepeated(_, _)
StripSuffixRepeated(s, pattern) ==
    IF pattern # <<>> /\ Len(pattern) <= Len(s)
       /\ SubSeq(s, Len(s) - Len(pattern) + 1, Len(s)) = pattern
    THEN StripSuffixRepeated(SubSeq(s, 1, Len(s) - Len(pattern)), pattern) ELSE s

\* str::strip_suffix(pattern).unwrap_or(s)
StripSuffix(s, pattern) ==
    IF Len(pattern) <= Len(s) /\ SubSeq(s, Len(s) - Len(pattern) + 1, Len(s)) = pattern
    THEN SubSeq(s, 1, Len(s) - Len(pattern)) ELSE s

\* TrimArg::trim_start_str_nocase: the loop, at its k-th turn
RECURSIVE trim_start_str_nocase_loop(_, _, _)
trim_start_str_nocase_loop(to_trim, pattern, k) ==
    IF k <= Len(to_trim) /\ k <= Len(pattern)
    THEN IF ToAsciiLower(to_trim[k]) # pattern[k] THEN to_trim
         ELSE trim_start_str_nocase_loop(to_trim, pattern, k + 1)
    ELSE IF k > Len(to_trim) /\ k <= Len(pattern) THEN to_trim
    ELSE IF k <= Len(to_trim) THEN SubSeq(to_trim, k, Len(to_trim))
    ELSE <<>>

trim_start_str_nocase(to_trim, pattern) == trim_start_str_nocase_loop(to_trim, pattern, 1)

\* TrimArg::trim_end_str_nocase: the loop, at its k-th turn from the end
RECURSIVE trim_end_str_nocase_loop(_, _, _)
trim_end_str_nocase_loop(to_trim, pattern, k) ==
    IF k <= Len(to_trim) /\ k <= Len(pattern)
    THEN IF ToAsciiLower(to_trim[Len(to_trim) + 1 - k]) # pattern[Len(pattern) + 1 - k]
         THEN to_trim
         ELSE trim_end_str_nocase_loop(to_trim, pattern, k + 1)
    ELSE IF k > Len(to_trim) /\ k <= Len(pattern) THEN to_trim
    ELSE IF k <= Len(to_trim) THEN SubSeq(to_trim, 1, Len(to_trim) + 1 - k)
    ELSE <<>>

trim_end_str_nocase(to_trim, pattern) == trim_end_str_nocase_loop(to_trim, pattern, 1)

\* TrimArg::trim_start_char_nocase
RECURSIVE trim_start_char_nocase(_, _)
trim_start_char_nocase(to_trim, pattern) ==
    IF to_trim # <<>> /\ ToAsciiLower(Head(to_trim)) \in Range(pattern)
    THEN trim_start_char_nocase(Tail(to_trim), pattern) ELSE to_trim

\* TrimArg::trim_end_char_nocase
RECURSIVE trim_end_char_nocase(_, _)
trim_end_char_nocase(to_trim, pattern) ==
    IF to_trim # <<>> /\ ToAsciiLower(to_trim[Len(to_trim)]) \in Range(pattern)
    THEN trim_end_char_nocase(SubSeq(to_trim, 1, Len(to_trim) - 1), pattern) ELSE to_trim

\* TrimArg::trim_start_char as it would be if only the first character were tested
trim_start_charFirstOnly(to_trim, pattern) ==
    IF to_trim # <<>> /\ Head(to_trim) \in Range(pattern) THEN Tail(to_trim) ELSE to_trim

\* TrimArg::trim_start_char
RECURSIVE trim_start_char(_, _)
trim_start_char(to_trim, pattern) ==
    IF to_trim # <<>> /\ Head(to_trim) \in Range(pattern)
    THEN trim_start_char(Tail(to_trim), pattern) ELSE to_trim

\* TrimArg::trim_end_char
RECURSIVE trim_end_char(_, _)
trim_end_char(to_trim, pattern) ==
    IF to_trim # <<>> /\ to_trim[Len(to_trim)] \in Range(pattern)
    THEN trim_end_char(SubSeq(to_trim, 1, Len(to_trim) - 1), pattern) ELSE to_trim

\* str::trim: white space is removed at both ends
RECURSIVE StrTrimStart(_)
StrTrimStart(s) == IF s # <<>> /\ IsWhitespace(Head(s)) THEN StrTrimStart(Tail(s)) ELSE s

RECURSIVE StrTrimEnd(_)
StrTrimEnd(s) ==
    IF s # <<>> /\ IsWhitespace(s[Len(s)]) THEN StrTrimEnd(SubSeq(s, 1, Len(s) - 1)) ELSE s

StrTrim(s) == StrTrimEnd(StrTrimStart(s))

\* TrimArg::trim
TrimArgTrim(arg, to_trim, nocaseConfig) ==
    LET pattern == arg.pattern.s
        is_nocase == arg.nocase \/ nocaseConfig
    IN  IF arg.pattern.some /\ pattern # <<>>
        THEN IF arg.char_mode
             THEN IF is_nocase
                  THEN CASE arg.trim_mode = "All" ->
                              trim_end_char_nocase(trim_start_char_nocase(to_trim, pattern), pattern)
                         [] arg.trim_mode = "Left" -> trim_start_char_nocase(to_trim, pattern)
                         [] arg.trim_mode = "Right" -> trim_end_char_nocase(to_trim, pattern)
                  ELSE CASE arg.trim_mode = "All" ->
                              trim_end_char(trim_start_char(to_trim, pattern), pattern)
                         [] arg.trim_mode = "Left" -> trim_start_char(to_trim, pattern)
                         [] arg.trim_mode = "Right" -> trim_end_char(to_trim, pattern)
             ELSE IF is_nocase
                  THEN CASE arg.trim_mode = "All" ->
                              trim_end_str_nocase(trim_start_str_nocase(to_trim, pattern), pattern)
                         [] arg.trim_mode = "Left" -> trim_start_str_nocase(to_trim, pattern)
                         [] arg.trim_mode = "Right" -> trim_end_str_nocase(to_trim, pattern)
                  ELSE CASE arg.trim_mode = "All" ->
                              StripSuffix(StripPrefix(to_trim, pattern), pattern)
                         [] arg.trim_mode = "Left" -> StripPrefix(to_trim, pattern)
                         [] arg.trim_mode = "Right" -> StripSuffix(to_trim, pattern)
        ELSE StrTrim(to_trim)

\* ---- the operators of the model, as the parser hands them to Op ----
ReplaceOps ==
    {[kind |-> "Replace", from |-> f, to |-> t, count |-> c, nocase |-> n] :
        f \in TxPatterns, t \in {<<>>, <<"b">>}, c \in {NoneU, 1}, n \in BOOLEAN}

\* parse_trim: `nocase` is only looked for after a pattern
TrimOps ==
    {[kind |-> "Trim", trim_mode |-> m, pattern |-> SomePattern(p), char_mode |-> c,
      nocase |-> n] :
        m \in {"All", "Left", "Right"}, p \in TxPatterns, c \in BOOLEAN, n \in BOOLEAN}
    \cup {[kind |-> "Trim", trim_mode |-> m, pattern |-> NoPattern, char_mode |-> c,
           nocase |-> FALSE] : m \in {"All", "Left", "Right"}, c \in BOOLEAN}

\* the examples of test_trim_str (src/op/trim.rs) and of the specification
TrimExample(m, p, text) ==
    [op |-> [kind |-> "Trim", trim_mode |-> m, pattern |-> SomePattern(p),
             char_mode |-> FALSE, nocase |-> FALSE],
     text |-> text]
TxExamples ==
    { TrimExample("All", <<"a", "b">>, <<"a", "b", "a", "b">>),
      TrimExample("All", <<"b", "a">>, <<"a", "b", "a", "b">>),
      TrimExample("Left", <<"a", "b", "c">>, <<"a", "b", "c", "a", "b", "c", "1", "2", "3">>) }

TextInit ==
    /\ tx_pc = "op"
    /\ \/ /\ tx_op \in ReplaceOps \cup TrimOps
          /\ tx_text \in TxTexts
          /\ tx_nocase \in BOOLEAN
       \/ /\ \E ex \in TxExamples : tx_op = ex.op /\ tx_text = ex.text
          /\ tx_nocase = FALSE
    /\ tx_arg = NoPattern
    /\ tx_result = <<>>

TextIdle ==
    /\ tx_pc = "idle"
    /\ tx_op = NoPattern
    /\ tx_text = <<>>
    /\ tx_nocase = FALSE
    /\ tx_arg = NoPattern
    /\ tx_result = <<>>

\* Op::new_replace: ReplaceArg::new
ReplaceNew ==
    /\ tx_pc = "op"
    /\ tx_op.kind = "Replace"
    /\ tx_arg' = ReplaceArgNew(tx_op.from, tx_op.to, tx_op.count, tx_op.nocase)
    /\ tx_pc' = "arg"
    /\ UNCHANGED <<tx_op, tx_text, tx_nocase, tx_result>>
    /\ UNCHANGED notText

\* parse_trim: TrimArg::new
TrimNew ==
    /\ tx_pc = "op"
    /\ tx_op.kind = "Trim"
    /\ tx_arg' = TrimArgNew(tx_op.trim_mode, tx_op.pattern, tx_op.char_mode, tx_op.nocase)
    /\ tx_pc' = "arg"
    /\ UNCHANGED <<tx_op, tx_text, tx_nocase, tx_result>>
    /\ UNCHANGED notText

\* Op::wrap for Op::Replace, applied to one item
ReplaceMap ==
    /\ tx_pc = "arg"
    /\ tx_arg.kind = "Replace"
    /\ tx_result' = IF tx_arg.count = 0 THEN tx_text
                    ELSE ReplaceArgReplace(tx_arg, tx_text, tx_nocase)
    /\ tx_pc' = "done"
    /\ UNCHANGED <<tx_op, tx_text, tx_nocase, tx_arg>>
    /\ UNCHANGED notText

\* Op::wrap for Op::Trim, applied to one item
TrimMap ==
    /\ tx_pc = "arg"
    /\ tx_arg.kind = "Trim"
    /\ tx_result' = TrimArgTrim(tx_arg, tx_text, tx_nocase)
    /\ tx_pc' = "done"
    /\ UNCHANGED <<tx_op, tx_text, tx_nocase, tx_arg>>
    /\ UNCHANGED notText

TextNext ==
    \/ ReplaceNew
    \/ TrimNew
    \/ ReplaceMap
    \/ TrimMap

(***************************************************************************)
(* The command line parsers: parse::args (argv) and parse::token (--token) *)
(***************************************************************************)
\* ---- bounds of the parser model ----
MaxArgs == 4

\* ---- the words of the model ----
\* A word is one argv token; the --token text is the words, each followed by
\* one space (parse_eval_token pushes the last one).
Words ==
    {":to", "to", "out", "file", "clip", "f", "append", "lf", "crlf",
     ":of", ":file", ":Upper", ":replace", ":bad", "::to"}

ArgLists == UNION {[1..n -> Words] : n \in 0..MaxArgs}

\* cmd followed by eof: ':' and then one or more of [A-Za-z0-9._-]
whole_cmd_token(w) == w \in {":to", ":of", ":file", ":Upper", ":replace", ":bad"}

\* to_ascii_lowercase / eq_ignore_ascii_case / tag_no_case on a word
WordLower(w) == IF w = ":Upper" THEN ":upper" ELSE w

\* argv: escape_string, then a leading "::" becomes ":"
escape(w) == IF w = "::to" THEN ":to" ELSE w

\* --token: a leading "\:" becomes ":" (no word of the model has one)
arg_exclude_cmd_value(w) == w

NoArg == "none"
StdInInput == [kind |-> "StdIn", values |-> <<>>]
StdOutOutput == [kind |-> "StdOut", file |-> NoArg, append |-> FALSE, crlf |-> NoArg]
new_file(file, append, crlf) == [kind |-> "File", file |-> file, append |-> append, crlf |-> crlf]
new_clip(crlf) == [kind |-> "Clip", file |-> NoArg, append |-> FALSE, crlf |-> crlf]

\* a step of a parser: err = "none" and the value with the words left, or the error
POk(val, rest) == [err |-> "none", cmd |-> NoArg, arg |-> NoArg, val |-> val, rest |-> rest]
PErr(kind, cmd, arg, rest) == [err |-> kind, cmd |-> cmd, arg |-> arg, val |-> NoArg, rest |-> rest]

\* ---- argv mode ----
RECURSIVE parse_arg0(_)
parse_arg0(args) ==
    IF args # <<>> /\ ~whole_cmd_token(Head(args))
    THEN LET r == parse_arg0(Tail(args))
         IN  [val |-> <<escape(Head(args))>> \o r.val, rest |-> r.rest]
    ELSE [val |-> <<>>, rest |-> args]

parse_arg1(args, cmd, arg) ==
    LET res == parse_arg0(args)
    IN  IF res.val = <<>> THEN PErr("MissingArg", cmd, arg, res.rest)
        ELSE POk(res.val, res.rest)

parse_input(args) ==
    IF args = <<>> THEN POk(StdInInput, args)
    ELSE LET lower_input == WordLower(Head(args))
         IN  CASE lower_input = ":file" ->
                   (LET r == parse_arg1(Tail(args), ":file", "file_name")
                    IN  IF r.err # "none" THEN r
                        ELSE POk([kind |-> "File", values |-> r.val], r.rest))
               [] lower_input = ":of" ->
                   (LET r == parse_arg1(Tail(args), ":of", "value")
                    IN  IF r.err # "none" THEN r
                        ELSE POk([kind |-> "Of", values |-> r.val], r.rest))
               [] OTHER -> POk(StdInInput, args)

parse_replace(args) ==
    IF args = <<>> THEN PErr("MissingArg", ":replace", "from", args)
    ELSE IF Tail(args) = <<>> THEN PErr("MissingArg", ":replace", "to", <<>>)
    ELSE POk([kind |-> "Replace", from |-> escape(args[1]), to |-> escape(args[2])],
             Tail(Tail(args)))

\* the None of parse_op, with nothing consumed
NoOp == [kind |-> "None", from |-> NoArg, to |-> NoArg]

parse_op(args) ==
    IF args = <<>> THEN POk(NoOp, args)
    ELSE LET lower_op == WordLower(Head(args))
         IN  CASE lower_op = ":upper" ->
                   POk([kind |-> "Upper", from |-> NoArg, to |-> NoArg], Tail(args))
               [] lower_op = ":replace" -> parse_replace(Tail(args))
               [] OTHER -> POk(NoOp, args)

RECURSIVE parse_ops(_)
parse_ops(args) ==
    LET r == parse_op(args)
    IN  IF r.err # "none" THEN r
        ELSE IF r.val = NoOp THEN POk(<<>>, r.rest)
        ELSE LET more == parse_ops(r.rest)
             IN  IF more.err # "none" THEN more
                 ELSE POk(<<r.val>> \o more.val, more.rest)

LineEnding(args) ==
    IF args # <<>> /\ WordLower(Head(args)) \in {"lf", "crlf"}
    THEN WordLower(Head(args)) ELSE NoArg

output_parse_file(args) ==
    IF args = <<>> THEN PErr("MissingArg", "to file", "file", args)
    ELSE LET file == Head(args)
             r1 == Tail(args)
             append == r1 # <<>> /\ WordLower(Head(r1)) = "append"
             r2 == IF append THEN Tail(r1) ELSE r1
             crlf == LineEnding(r2)
             r3 == IF crlf # NoArg THEN Tail(r2) ELSE r2
         IN  POk(new_file(file, append, crlf), r3)

parse_output(args) ==
    IF args # <<>> /\ WordLower(Head(args)) = "to"
    THEN LET r == Tail(args)
         IN  IF r = <<>> THEN POk(StdOutOutput, r)
             ELSE CASE WordLower(Head(r)) = "file" -> output_parse_file(Tail(r))
                    [] WordLower(Head(r)) = "clip" -> POk(new_clip(NoArg), Tail(r))
                    [] WordLower(Head(r)) = "out" -> POk(StdOutOutput, Tail(r))
                    [] OTHER -> POk(StdOutOutput, r)
    ELSE POk(StdOutOutput, args)

ParseOk(input, ops, output) ==
    [kind |-> "Ok", cmd |-> NoArg, arg |-> NoArg, remaining |-> <<>>,
     input |-> input, ops |-> ops, output |-> output]
ParseErr(kind, cmd, arg, remaining) ==
    [kind |-> kind, cmd |-> cmd, arg |-> arg, remaining |-> remaining,
     input |-> NoArg, ops |-> NoArg, output |-> NoArg]

parseIgnoringRemaining(args) ==
    LET input == parse_input(args)
        ops == parse_ops(input.rest)
        output == parse_output(ops.rest)
    IN  IF input.err # "none" THEN ParseErr(input.err, input.cmd, input.arg, <<>>)
        ELSE IF ops.err # "none" THEN ParseErr(ops.err, ops.cmd, ops.arg, <<>>)
        ELSE IF output.err # "none" THEN ParseErr(output.err, output.cmd, output.arg, <<>>)
        ELSE ParseOk(input.val, ops.val, output.val)

parse(args) ==
    LET input == parse_input(args)
        ops == parse_ops(input.rest)
        output == parse_output(ops.rest)
    IN  IF input.err # "none" THEN ParseErr(input.err, input.cmd, input.arg, <<>>)
        ELSE IF ops.err # "none" THEN ParseErr(ops.err, ops.cmd, ops.arg, <<>>)
        ELSE IF output.err # "none" THEN ParseErr(output.err, output.cmd, output.arg, <<>>)
        ELSE IF output.rest # <<>> THEN ParseErr("UnknownArgs", NoArg, NoArg, output.rest)
        ELSE ParseOk(input.val, ops.val, output.val)

\* ---- token mode ----
\* cmd at the start of a word: what ends the arguments of cmd_arg1
cmd(w) == w \in {":to", ":of", ":file", ":Upper", ":replace", ":bad"}

\* many_till(preceded(space1, arg_exclude_cmd), peek((space1, alt((cmd, eof)))))
RECURSIVE many_till_args(_)
many_till_args(words) ==
    IF words = <<>> \/ cmd(Head(words)) THEN POk(<<>>, words)
    ELSE IF whole_cmd_token(Head(words)) THEN PErr("Error", NoArg, NoArg, words)
    ELSE LET r == many_till_args(Tail(words))
         IN  IF r.err # "none" THEN r
             ELSE POk(<<arg_exclude_cmd_value(Head(words))>> \o r.val, r.rest)

\* preceded(tag_no_case(cmd_name), verify(many_till(..), non-empty)), then space1
cmd_arg1(words, cmd_name) ==
    IF words = <<>> \/ WordLower(Head(words)) # cmd_name
    THEN PErr("Error", NoArg, NoArg, words)
    ELSE LET r == many_till_args(Tail(words))
         IN  IF r.err # "none" \/ r.val = <<>> THEN PErr("Error", NoArg, NoArg, words)
             ELSE r

\* alt((parse_std_in, parse_file, parse_of, .., success -> StdIn))
token_parse_input(words) ==
    LET file == cmd_arg1(words, ":file")
        of == cmd_arg1(words, ":of")
    IN  IF file.err = "none" THEN POk([kind |-> "File", values |-> file.val], file.rest)
        ELSE IF of.err = "none" THEN POk([kind |-> "Of", values |-> of.val], of.rest)
        ELSE POk(StdInInput, words)

token_parse_case(words) ==
    IF words # <<>> /\ WordLower(Head(words)) = ":upper"
    THEN POk([kind |-> "Upper", from |-> NoArg, to |-> NoArg], Tail(words))
    ELSE PErr("Error", NoArg, NoArg, words)

\* :replace <from> <to>[ <count>][ nocase]: no word of the model is a count or nocase
token_parse_replace(words) ==
    IF Len(words) >= 3 /\ WordLower(Head(words)) = ":replace"
    THEN POk([kind |-> "Replace", from |-> words[2], to |-> words[3]], SubSeq(words, 4, Len(words)))
    ELSE PErr("Error", NoArg, NoArg, words)

\* many0(alt((.., parse_case, parse_replace, ..))): stops at the first word no
\* alternative parses
RECURSIVE token_parse_ops(_)
token_parse_ops(words) ==
    LET case == token_parse_case(words)
        replace == token_parse_replace(words)
        op == IF case.err = "none" THEN case ELSE replace
    IN  IF op.err # "none" THEN POk(<<>>, words)
        ELSE LET more == token_parse_ops(op.rest)
             IN  POk(<<op.val>> \o more.val, more.rest)

IsTo(words, sink) ==
    Len(words) >= 2 /\ WordLower(words[1]) = ":to" /\ WordLower(words[2]) = sink

parse_to_std_out(words) ==
    IF IsTo(words, "out") THEN POk(StdOutOutput, SubSeq(words, 3, Len(words)))
    ELSE PErr("Error", NoArg, NoArg, words)

\* :to file, general_file_info(false): <file> is any arg
parse_to_file(words) ==
    IF IsTo(words, "file") /\ Len(words) >= 3
    THEN LET r1 == SubSeq(words, 4, Len(words))
             append == r1 # <<>> /\ WordLower(Head(r1)) = "append"
             r2 == IF append THEN Tail(r1) ELSE r1
             crlf == LineEnding(r2)
             r3 == IF crlf # NoArg THEN Tail(r2) ELSE r2
         IN  POk(new_file(words[3], append, crlf), r3)
    ELSE PErr("Error", NoArg, NoArg, words)

\* compiled for windows only
parse_to_clip(words, windows) ==
    IF windows /\ IsTo(words, "clip")
    THEN LET r1 == SubSeq(words, 3, Len(words))
             crlf == LineEnding(r1)
         IN  POk(new_clip(crlf), IF crlf # NoArg THEN Tail(r1) ELSE r1)
    ELSE PErr("Error", NoArg, NoArg, words)

\* alt((parse_to_std_out, parse_to_file, parse_to_clip, success -> StdOut))
parse_out(words, windows) ==
    LET out == parse_to_std_out(words)
        file == parse_to_file(words)
        clip == parse_to_clip(words, windows)
    IN  IF out.err = "none" THEN out
        ELSE IF file.err = "none" THEN file
        ELSE IF clip.err = "none" THEN clip
        ELSE POk(StdOutOutput, words)

parse_without_configs(words, windows) ==
    LET input == token_parse_input(words)
        ops == token_parse_ops(input.rest)
        output == parse_out(ops.rest, windows)
    IN  [remaining |-> output.rest, input |-> input.val, ops |-> ops.val, output |-> output.val]

\* no argument after the --token option
NoToken == <<"(none)">>

parse_eval_token(token, windows) ==
    IF token = NoToken THEN ParseErr("MissingArg", "--token", "<token>", <<>>)
    ELSE LET res == parse_without_configs(token, windows)
         IN  IF res.remaining # <<>>
             THEN ParseErr("UnexpectedRemaining", "--token", "<token>", res.remaining)
             ELSE ParseOk(res.input, res.ops, res.output)

\* ---- the parsers as a state machine ----
NoResult == ParseErr("none", NoArg, NoArg, <<>>)

ParseIdle ==
    /\ ps_pc = "idle"
    /\ ps_mode = "args"
    /\ ps_windows = FALSE
    /\ ps_args = <<>>
    /\ ps_result = NoResult

ParseInit ==
    /\ ps_pc = "start"
    /\ ps_mode \in {"args", "token"}
    /\ ps_windows \in BOOLEAN
    /\ ps_args \in ArgLists \cup (IF ps_mode = "token" THEN {NoToken} ELSE {})
    /\ ps_mode = "args" => ps_windows = FALSE
    /\ ps_result = NoResult

\* main: parse::args::parse(args)
ParseArgs ==
    /\ ps_pc = "start"
    /\ ps_mode = "args"
    /\ ps_result' = parse(ps_args)
    /\ ps_pc' = "parsed"
    /\ UNCHANGED <<ps_mode, ps_windows, ps_args>>
    /\ UNCHANGED notParse

\* main: config::parse_eval_token(&mut args)
ParseEvalToken ==
    /\ ps_pc = "start"
    /\ ps_mode = "token"
    /\ ps_result' = parse_eval_token(ps_args, ps_windows)
    /\ ps_pc' = "parsed"
    /\ UNCHANGED <<ps_mode, ps_windows, ps_args>>
    /\ UNCHANGED notParse

\* main: the `?` after the parse returns the error before the pipe is built
ParseFailed ==
    /\ ps_pc = "parsed"
    /\ ps_result.kind # "Ok"
    /\ ps_pc' = "failed"
    /\ UNCHANGED <<ps_mode, ps_windows, ps_args, ps_result>>
    /\ UNCHANGED notParse

\* main: run(input, ops, output)
ParseRun ==
    /\ ps_pc = "parsed"
    /\ ps_result.kind = "Ok"
    /\ ps_pc' = "ran"
    /\ UNCHANGED <<ps_mode, ps_windows, ps_args, ps_result>>
    /\ UNCHANGED notParse

ParseNext ==
    \/ ParseArgs
    \/ ParseEvalToken
    \/ ParseFailed
    \/ ParseRun

(***************************************************************************)
(* :limit and :skip                                                        *)
(***************************************************************************)
\* ---- bounds of the :limit / :skip model ----
MaxCount == 4          \* the count argument is drawn from 0..MaxCount
MaxLimitLen == 5       \* upstream length

\* parse_limit with the upper bound of the range set to count
parse_limitEndAtCount(count) ==
    IF count = 0 THEN <<>> ELSE << <<NoneU, count>> >>

\* parse_limit: Op::Slice { ranges } for the parsed count
parse_limit(count) ==
    IF count = 0 THEN <<>> ELSE << <<NoneU, count - 1>> >>

\* parse_skip: Op::Slice { ranges } for the parsed count
parse_skip(count) == << <<count, NoneU>> >>

LimitInit ==
    /\ lm_pc = "args"
    /\ lm_cmd \in {"limit", "skip"}
    /\ lm_count \in 0..MaxCount
    /\ lm_len \in 0..MaxLimitLen
    /\ lm_idx = 0
    /\ lm_ranges = <<>>
    /\ lm_out = <<>>

LimitIdle ==
    /\ lm_pc = "idle"
    /\ lm_cmd = "limit"
    /\ lm_count = 0
    /\ lm_len = 0
    /\ lm_idx = 0
    /\ lm_ranges = <<>>
    /\ lm_out = <<>>

\* parse_op: ":limit" => parse_limit
ParseLimit ==
    /\ lm_pc = "args"
    /\ lm_cmd = "limit"
    /\ lm_ranges' = parse_limit(lm_count)
    /\ lm_pc' = "op"
    /\ UNCHANGED <<lm_cmd, lm_count, lm_len, lm_idx, lm_out>>
    /\ UNCHANGED notLimit

\* parse_op: ":skip" => parse_skip
ParseSkip ==
    /\ lm_pc = "args"
    /\ lm_cmd = "skip"
    /\ lm_ranges' = parse_skip(lm_count)
    /\ lm_pc' = "op"
    /\ UNCHANGED <<lm_cmd, lm_count, lm_len, lm_idx, lm_out>>
    /\ UNCHANGED notLimit

\* SliceIter::new(source, ranges): the ranges are kept as given, the source
\* is enumerated from index 0
LimitNew ==
    /\ lm_pc = "op"
    /\ lm_idx' = 0
    /\ lm_pc' = "iter"
    /\ UNCHANGED <<lm_cmd, lm_count, lm_len, lm_ranges, lm_out>>
    /\ UNCHANGED notLimit

\* one call of SliceIter::next that yields an item
LimitYield ==
    /\ lm_pc = "iter"
    /\ LET r == SliceIterNext(lm_idx, lm_ranges, lm_len)
       IN  /\ r.item # NoItem
           /\ lm_out' = Append(lm_out, r.item)
           /\ lm_idx' = r.idx
           /\ lm_ranges' = r.ranges
    /\ UNCHANGED <<lm_pc, lm_cmd, lm_count, lm_len>>
    /\ UNCHANGED notLimit

\* one call of SliceIter::next that returns None: the consumer stops
LimitEnd ==
    /\ lm_pc = "iter"
    /\ LET r == SliceIterNext(lm_idx, lm_ranges, lm_len)
       IN  /\ r.item = NoItem
           /\ lm_idx' = r.idx
           /\ lm_ranges' = r.ranges
    /\ lm_pc' = "end"
    /\ UNCHANGED <<lm_cmd, lm_count, lm_len, lm_out>>
    /\ UNCHANGED notLimit

LimitNext ==
    \/ ParseLimit
    \/ ParseSkip
    \/ LimitNew
    \/ LimitYield
    \/ LimitEnd

(***************************************************************************)
(* :uniq                                                                   *)
(***************************************************************************)
\* ---- bounds of the :uniq model ----
MaxUniqLen == 4        \* upstream length

UniqItems == { <<"A">>, <<"a">>, <<"B">>, <<"a", "b">>, <<"A", "B">>, <<"é">>, <<"É">> }
UniqUpstreams == UNION {[1..n -> UniqItems] : n \in 0..MaxUniqLen}

\* String::to_ascii_uppercase: only a..z change
to_ascii_uppercase(s) == [i \in 1..Len(s) |-> ToAsciiUpper(s[i])]

\* the key with the item itself whatever the flags
UniqKeyNoFold(item, nocase, global) == item

\* the key of the closure: is_nocase(nocase, configs) decides
UniqKey(item, nocase, global) ==
    IF nocase \/ global THEN to_ascii_uppercase(item) ELSE item

\* Filter::next over the closure: the first item from pos on whose key
\* HashSet::insert accepts; the keys of the items passed over are already in seen
RECURSIVE UniqFilterNext(_, _, _, _, _)
UniqFilterNext(upstream, pos, seen, nocase, global) ==
    IF pos >= Len(upstream)
    THEN [some |-> FALSE, item |-> <<>>, pos |-> pos, seen |-> seen]
    ELSE LET item == upstream[pos + 1]
             key == UniqKey(item, nocase, global)
         IN  IF key \notin seen
             THEN [some |-> TRUE, item |-> item, pos |-> pos + 1, seen |-> seen \cup {key}]
             ELSE UniqFilterNext(upstream, pos + 1, seen, nocase, global)

UniqInit ==
    /\ uq_pc = "op"
    /\ uq_nocase \in BOOLEAN
    /\ uq_global \in BOOLEAN
    /\ uq_upstream \in UniqUpstreams
    /\ uq_pos = 0
    /\ uq_seen = {}
    /\ uq_out = <<>>

UniqIdle ==
    /\ uq_pc = "idle"
    /\ uq_nocase = FALSE
    /\ uq_global = FALSE
    /\ uq_upstream = <<>>
    /\ uq_pos = 0
    /\ uq_seen = {}
    /\ uq_out = <<>>

\* Op::wrap: let mut seen = HashSet::new(); pipe.op_filter(..)
UniqWrap ==
    /\ uq_pc = "op"
    /\ uq_seen' = {}
    /\ uq_pc' = "iter"
    /\ UNCHANGED <<uq_nocase, uq_global, uq_upstream, uq_pos, uq_out>>
    /\ UNCHANGED notUniq

\* one call of next() that yields an item
UniqYield ==
    /\ uq_pc = "iter"
    /\ LET r == UniqFilterNext(uq_upstream, uq_pos, uq_seen, uq_nocase, uq_global)
       IN  /\ r.some
           /\ uq_out' = Append(uq_out, r.item)
           /\ uq_pos' = r.pos
           /\ uq_seen' = r.seen
    /\ UNCHANGED <<uq_pc, uq_nocase, uq_global, uq_upstream>>
    /\ UNCHANGED notUniq

\* one call of next() that returns None
UniqEnd ==
    /\ uq_pc = "iter"
    /\ LET r == UniqFilterNext(uq_upstream, uq_pos, uq_seen, uq_nocase, uq_global)
       IN  /\ ~r.some
           /\ uq_pos' = r.pos
           /\ uq_seen' = r.seen
    /\ uq_pc' = "end"
    /\ UNCHANGED <<uq_nocase, uq_global, uq_upstream, uq_out>>
    /\ UNCHANGED notUniq

UniqNext ==
    \/ UniqWrap
    \/ UniqYield
    \/ UniqEnd

(***************************************************************************)
(* The whole-stream stages: :count, :sort, :sort num, :sort random         *)
(***************************************************************************)
\* ---- bounds of the whole-stream model ----
MaxWsLen == 3          \* upstream length

WsItems == { <<>>, <<"1">>, <<"5">>, <<"1", "5">>, <<"-", "1">>, <<"+", "5">>,
             <<"a">>, <<"5", "a">> }
WsUpstreams == UNION {[1..n -> WsItems] : n \in 0..MaxWsLen}

\* ---- parse_sort ----
MaxSortArgs == 3       \* number of words after :sort

SortWords == {"num", "10", "3", "desc", "random"}
SortArgLists == UNION {[1..n -> SortWords] : n \in 0..MaxSortArgs}

\* str::parse::<Integer>() on a word of the model
WordInteger(w) ==
    CASE w = "10" -> [ok |-> TRUE, v |-> 10]
      [] w = "3" -> [ok |-> TRUE, v |-> 3]
      [] OTHER -> [ok |-> FALSE, v |-> 0]

\* SortBy::Num(def_integer, def_float), SortBy::Text(nocase), SortBy::Random.
\* No word of the model is a float that is not an integer, so def_float stays None.
SortByNum(some, def) == [kind |-> "Num", some |-> some, def |-> def, nocase |-> FALSE]
SortByText(nocase) == [kind |-> "Text", some |-> FALSE, def |-> 0, nocase |-> nocase]
SortByRandom == [kind |-> "Random", some |-> FALSE, def |-> 0, nocase |-> FALSE]

\* parse_sort, after the :sort keyword: the Op and the words left
parse_sort(args) ==
    LET by == IF args = <<>> THEN [v |-> SortByText(FALSE), rest |-> args]
              ELSE CASE Head(args) = "num" ->
                        (IF Tail(args) # <<>> /\ WordInteger(args[2]).ok
                         THEN [v |-> SortByNum(TRUE, WordInteger(args[2]).v),
                               rest |-> Tail(Tail(args))]
                         ELSE [v |-> SortByNum(FALSE, 0), rest |-> Tail(args)])
                     [] Head(args) = "nocase" -> [v |-> SortByText(TRUE), rest |-> Tail(args)]
                     [] Head(args) = "random" -> [v |-> SortByRandom, rest |-> Tail(args)]
                     [] OTHER -> [v |-> SortByText(FALSE), rest |-> args]
        desc == by.v # SortByRandom /\ by.rest # <<>> /\ Head(by.rest) = "desc"
    IN  [op |-> [kind |-> "Sort", sort_by |-> by.v, desc |-> desc],
         rest |-> IF desc THEN Tail(by.rest) ELSE by.rest]

CountOp == [kind |-> "Count", sort_by |-> SortByText(FALSE), desc |-> FALSE]

WsOps == {CountOp} \cup {parse_sort(args).op : args \in SortArgLists}

\* the byte of the characters that items of the whole-stream model hold
WsCharByte(c) ==
    CASE c = "+" -> 43 [] c = "-" -> 45 [] c = "1" -> 49 [] c = "5" -> 53 [] c = "a" -> 97

\* String::cmp: byte by byte, the shorter string first
RECURSIVE WsStrCmp(_, _)
WsStrCmp(s, t) ==
    IF s = <<>> /\ t = <<>> THEN 0
    ELSE IF s = <<>> THEN -1
    ELSE IF t = <<>> THEN 1
    ELSE IF WsCharByte(s[1]) # WsCharByte(t[1])
         THEN (IF WsCharByte(s[1]) < WsCharByte(t[1]) THEN -1 ELSE 1)
    ELSE WsStrCmp(Tail(s), Tail(t))

\* key_fn with the parse result ignored: every item is ranked with the default
key_fnAlwaysDefault(item, def) == def

\* key_fn: item.parse().unwrap_or(def)
key_fn(item, def) == IF ParseInteger(item).ok THEN ParseInteger(item).v ELSE def

\* Float::MAX in 1/FloatScale units: above every float an item of the model holds
FloatMax == Pow10(MaxItemLen) * FloatScale

\* key_fn of the float branch: OrderedFloat(item.parse().unwrap_or(Float::MAX))
float_key_fn(item) == IF ParseFloat(item).ok THEN ParseFloat(item).v ELSE FloatMax

IntCmp(a, b) == IF a < b THEN -1 ELSE IF a > b THEN 1 ELSE 0

\* Ord::cmp of the keys of two items: the key itself, or Reverse(key) with desc
KeyCmp(op, a, b) ==
    LET by == op.sort_by
        cmp == IF by.kind = "Num" /\ by.some THEN IntCmp(key_fn(a, by.def), key_fn(b, by.def))
               ELSE IF by.kind = "Num" THEN IntCmp(float_key_fn(a), float_key_fn(b))
               ELSE WsStrCmp(a, b)
    IN  IF op.desc THEN 0 - cmp ELSE cmp

\* stable insertion: after every item whose key is not greater
RECURSIVE InsertByKey(_, _, _)
InsertByKey(op, sorted, item) ==
    IF sorted = <<>> THEN <<item>>
    ELSE IF KeyCmp(op, sorted[1], item) <= 0
         THEN <<sorted[1]>> \o InsertByKey(op, Tail(sorted), item)
    ELSE <<item>> \o sorted

\* Itertools::sorted_by_key: Vec::sort_by_key (stable) over the collected items
RECURSIVE sorted_by_key(_, _)
sorted_by_key(op, items) ==
    IF items = <<>> THEN <<>>
    ELSE InsertByKey(op, sorted_by_key(op, SubSeq(items, 1, Len(items) - 1)),
                     items[Len(items)])

\* the orders v.shuffle(&mut rand::rng()) can leave
Shuffles(items) ==
    {[i \in 1..Len(items) |-> items[p[i]]] :
        p \in {q \in [1..Len(items) -> 1..Len(items)] :
                  \A i, j \in 1..Len(items) : q[i] = q[j] => i = j}}

\* what Op::wrap hands downstream once the upstream has ended, as a Vec / Once
WsResults(op, items) ==
    CASE op.kind = "Count" -> { <<ToDecimal(Len(items))>> }
      [] op.kind = "Sort" /\ op.sort_by.kind = "Random" -> Shuffles(items)
      [] OTHER -> { sorted_by_key(op, items) }

WsInit ==
    /\ ws_pc = "wrap"
    /\ ws_op \in WsOps
    /\ ws_upstream \in WsUpstreams
    /\ ws_pos = 0
    /\ ws_ended = FALSE
    /\ ws_buf = <<>>
    /\ ws_out = <<>>

WsIdle ==
    /\ ws_pc = "idle"
    /\ ws_op = CountOp
    /\ ws_upstream = <<>>
    /\ ws_pos = 0
    /\ ws_ended = FALSE
    /\ ws_buf = <<>>
    /\ ws_out = <<>>

\* Op::wrap: count() / sorted_by_key() / collect() pulls one more upstream item
WsPull ==
    /\ ws_pc = "wrap"
    /\ ws_pos < Len(ws_upstream)
    /\ ws_pos' = ws_pos + 1
    /\ UNCHANGED <<ws_pc, ws_op, ws_upstream, ws_ended, ws_buf, ws_out>>
    /\ UNCHANGED notWs

\* Op::wrap as it would be if the stage built its result from the items pulled so far
WsUpstreamEndEarly ==
    /\ ws_pc = "wrap"
    /\ ws_buf' \in WsResults(ws_op, SubSeq(ws_upstream, 1, ws_pos))
    /\ ws_pc' = "iter"
    /\ UNCHANGED <<ws_op, ws_upstream, ws_pos, ws_ended, ws_out>>
    /\ UNCHANGED notWs

\* Op::wrap: the upstream returns None; the stage builds its result and returns the Pipe
WsUpstreamEnd ==
    /\ ws_pc = "wrap"
    /\ ws_pos = Len(ws_upstream)
    /\ ws_ended' = TRUE
    /\ ws_buf' \in WsResults(ws_op, SubSeq(ws_upstream, 1, ws_pos))
    /\ ws_pc' = "iter"
    /\ UNCHANGED <<ws_op, ws_upstream, ws_pos, ws_out>>
    /\ UNCHANGED notWs

\* downstream calls next(): the Vec / Once iterator yields its next item
WsYield ==
    /\ ws_pc = "iter"
    /\ ws_buf # <<>>
    /\ ws_out' = Append(ws_out, Head(ws_buf))
    /\ ws_buf' = Tail(ws_buf)
    /\ UNCHANGED <<ws_pc, ws_op, ws_upstream, ws_pos, ws_ended>>
    /\ UNCHANGED notWs

\* downstream calls next(): None
WsEnd ==
    /\ ws_pc = "iter"
    /\ ws_buf = <<>>
    /\ ws_pc' = "end"
    /\ UNCHANGED <<ws_op, ws_upstream, ws_pos, ws_ended, ws_buf, ws_out>>
    /\ UNCHANGED notWs

WsNext ==
    \/ WsPull
    \/ WsUpstreamEnd
    \/ WsYield
    \/ WsEnd

(***************************************************************************)
(* Item order through a pipeline: Pipe::op_map / op_filter / op_inspect    *)
(* and the iterators Op::wrap builds, over items that carry the positions  *)
(* of the source items they derive from.                                   *)
(***************************************************************************)
MaxOrdLen == 3
MaxOrdOps == 2

OrdTexts == { <<"a">>, <<"A">>, <<"1">> }
OrdSources == UNION {[1..n -> OrdTexts] : n \in 0..MaxOrdLen}
OrdCond == [select |-> [kind |-> "Num", integer |-> "None"], not |-> FALSE]
OrdJoinInfo == [delimiter |-> <<",">>, prefix |-> <<>>, postfix |-> <<>>]
OrdStages ==
    { [kind |-> "Case", arg |-> a] : a \in {"Upper", "Lower"} }
    \cup { [kind |-> "Uniq", nocase |-> FALSE] }
    \cup { [kind |-> "TakeDrop", mode |-> m, cond |-> OrdCond] : m \in TakeDropModes }
    \cup { [kind |-> "Slice", ranges |-> r] :
             r \in { parse_limit(1), parse_skip(1), << <<1, 1>>, <<0, 2>> >> } }
    \cup { [kind |-> "Peek"] }
    \cup { [kind |-> "Join", join_info |-> OrdJoinInfo, batch |-> b] : b \in {NoneU, 2} }
    \cup { [kind |-> "Count"] }
    \cup { [kind |-> "Sort"] }
OrdPipelines == UNION {[1..n -> OrdStages] : n \in 0..MaxOrdOps}

\* the texts of the items, in order
OrdTextsOf(items) == [i \in 1..Len(items) |-> items[i].text]

\* the source positions a run of items derives from
OrdFromOf(items) == UNION { items[i].from : i \in 1..Len(items) }

\* Iterator::map with the items yielded last first
OrdMapReversed(op, items) ==
    [i \in 1..Len(items) |->
        [text |-> IF op.arg = "Upper" THEN to_ascii_uppercase(items[Len(items) + 1 - i].text)
                  ELSE ToAsciiLowerStr(items[Len(items) + 1 - i].text),
         from |-> items[Len(items) + 1 - i].from]]

\* Pipe::op_map for Op::Case: every item is replaced by its image, in place
OrdMap(op, items) ==
    [i \in 1..Len(items) |->
        [text |-> IF op.arg = "Upper" THEN to_ascii_uppercase(items[i].text)
                  ELSE ToAsciiLowerStr(items[i].text),
         from |-> items[i].from]]

\* Pipe::op_filter for Op::Uniq: the items UniqFilterNext yields, call after call
RECURSIVE OrdUniq(_, _, _)
OrdUniq(items, pos, seen) ==
    LET r == UniqFilterNext(OrdTextsOf(items), pos, seen, FALSE, FALSE)
    IN  IF r.some THEN <<items[r.pos]>> \o OrdUniq(items, r.pos, r.seen) ELSE <<>>

\* the iterator of Op::TakeDrop: the items TakeDropNext yields, call after call
RECURSIVE OrdTakeDrop(_, _, _)
OrdTakeDrop(op, items, flag) ==
    LET r == TakeDropNext(op.mode, OrdTextsOf(items), flag, op.cond)
        p == Len(items) - Len(r.source)
    IN  IF r.some
        THEN <<items[p]>> \o OrdTakeDrop(op, SubSeq(items, p + 1, Len(items)), r.flag)
        ELSE <<>>

\* SliceIter: the items SliceIterNext yields, call after call
RECURSIVE OrdSlice(_, _, _)
OrdSlice(items, idx, ranges) ==
    LET r == SliceIterNext(idx, ranges, Len(items))
    IN  IF r.item = NoItem THEN <<>>
        ELSE <<items[r.item + 1]>> \o OrdSlice(items, r.idx, r.ranges)

\* ChunkJoin: the items ChunkJoinNext yields, call after call
RECURSIVE OrdChunkJoin(_, _)
OrdChunkJoin(op, items) ==
    LET r == ChunkJoinNext(OrdTextsOf(items), op.batch, op.join_info)
    IN  IF r.some
        THEN << [text |-> r.item, from |-> OrdFromOf(SubSeq(items, 1, r.taken))] >>
             \o OrdChunkJoin(op, SubSeq(items, r.taken + 1, Len(items)))
        ELSE <<>>

\* stable insertion by text
RECURSIVE OrdSortedInsert(_, _)
OrdSortedInsert(sorted, item) ==
    IF sorted = <<>> THEN <<item>>
    ELSE IF StrLe(sorted[1].text, item.text)
         THEN <<sorted[1]>> \o OrdSortedInsert(Tail(sorted), item)
    ELSE <<item>> \o sorted

\* Itertools::sorted_by_key(|item| item.to_string())
RECURSIVE OrdSort(_)
OrdSort(items) ==
    IF items = <<>> THEN <<>>
    ELSE OrdSortedInsert(OrdSort(SubSeq(items, 1, Len(items) - 1)), items[Len(items)])

\* Op::wrap: the items the pipe yields once the stage is wrapped around it
OrdWrap(op, items) ==
    CASE op.kind = "Peek" -> items
      [] op.kind = "Case" -> OrdMap(op, items)
      [] op.kind = "Uniq" -> OrdUniq(items, 0, {})
      [] op.kind = "TakeDrop" -> OrdTakeDrop(op, items, FALSE)
      [] op.kind = "Slice" -> OrdSlice(items, 0, op.ranges)
      [] op.kind = "Join" ->
            IF op.batch # NoneU THEN OrdChunkJoin(op, items)
            ELSE << [text |-> JoinFormat(op.join_info, OrdTextsOf(items)),
                     from |-> OrdFromOf(items)] >>
      [] op.kind = "Count" ->
            << [text |-> ToDecimal(Len(items)), from |-> OrdFromOf(items)] >>
      [] op.kind = "Sort" -> OrdSort(items)

OrdInit ==
    /\ od_pc = "source"
    /\ od_src \in OrdSources
    /\ od_ops \in OrdPipelines
    /\ od_k = 0
    /\ od_items = <<>>
    /\ od_out = <<>>

OrdIdle ==
    /\ od_pc = "idle"
    /\ od_src = <<>>
    /\ od_ops = <<>>
    /\ od_k = 0
    /\ od_items = <<>>
    /\ od_out = <<>>

\* Input::try_into: the pipe over the items of the source
OrdTryInto ==
    /\ od_pc = "source"
    /\ od_items' = [i \in 1..Len(od_src) |-> [text |-> od_src[i], from |-> {i}]]
    /\ od_pc' = "wrap"
    /\ UNCHANGED <<od_src, od_ops, od_k, od_out>>
    /\ UNCHANGED notOrd

\* one turn of `for op in ops { pipe = op.wrap(pipe, configs)? }`
OrdWrapOp ==
    /\ od_pc = "wrap"
    /\ od_k < Len(od_ops)
    /\ od_items' = OrdWrap(od_ops[od_k + 1], od_items)
    /\ od_k' = od_k + 1
    /\ UNCHANGED <<od_pc, od_src, od_ops, od_out>>
    /\ UNCHANGED notOrd

\* the loop is over: the pipe is handed to the output
OrdWrapped ==
    /\ od_pc = "wrap"
    /\ od_k = Len(od_ops)
    /\ od_pc' = "sink"
    /\ UNCHANGED <<od_src, od_ops, od_k, od_items, od_out>>
    /\ UNCHANGED notOrd

\* Output::handle: every item of the pipe is written, in the order it is yielded
OrdHandle ==
    /\ od_pc = "sink"
    /\ od_out' = od_items
    /\ od_pc' = "done"
    /\ UNCHANGED <<od_src, od_ops, od_k, od_items>>
    /\ UNCHANGED notOrd

OrdNext ==
    \/ OrdTryInto
    \/ OrdWrapOp
    \/ OrdWrapped
    \/ OrdHandle

(***************************************************************************)
(* RangeIter under calls of next and next_back in any order.               *)
(***************************************************************************)
MaxRiCalls == 5

\* the bounds of the ranges: the extremes of Integer and the values around zero
RiBounds == {MinInt, MinInt + 1, -1, 0, 1, 2, MaxInt - 1, MaxInt}
RiSteps == {0, 1, 2, MaxSmallStep, MaxInt}
RiArgs == [start : RiBounds, end : RiBounds, included : BOOLEAN, step : RiSteps]

RiInit ==
    /\ ri_pc = "new"
    /\ ri_args \in RiArgs
    /\ ri_checks \in BOOLEAN
    /\ ri_it = NoIter
    /\ ri_log = <<>>

RiIdle ==
    /\ ri_pc = "idle"
    /\ ri_args = [start |-> 0, end |-> 0, included |-> FALSE, step |-> 0]
    /\ ri_checks = FALSE
    /\ ri_it = NoIter
    /\ ri_log = <<>>

\* range_to_iter(start, end, included, step) with a step that is not negative:
\* the RangeIter itself is boxed
RiNew ==
    /\ ri_pc = "new"
    /\ LET b == range_to_iter(ri_args.start, ri_args.end, ri_args.included,
                              ri_args.step, ri_checks)
       IN  /\ ~b.panic
           /\ ri_it' = b.it
    /\ ri_pc' = "iter"
    /\ UNCHANGED <<ri_args, ri_checks, ri_log>>
    /\ UNCHANGED notRi

\* range_to_iter panics on end - 1
RiNewPanic ==
    /\ ri_pc = "new"
    /\ range_to_iter(ri_args.start, ri_args.end, ri_args.included,
                     ri_args.step, ri_checks).panic
    /\ ri_pc' = "panic"
    /\ UNCHANGED <<ri_args, ri_checks, ri_it, ri_log>>
    /\ UNCHANGED notRi

\* the result of one call, and the state it leaves
RiCall(call, r) ==
    /\ ri_it' = r.it
    /\ ri_log' = Append(ri_log, [call |-> call, res |-> r.res, val |-> r.val])
    /\ ri_pc' = IF r.res = "panic" THEN "panic" ELSE "iter"
    /\ UNCHANGED <<ri_args, ri_checks>>
    /\ UNCHANGED notRi

\* a call of RangeIter::next
RiCallNext ==
    /\ ri_pc = "iter"
    /\ Len(ri_log) < MaxRiCalls
    /\ RiCall("next", RangeIterNext(ri_it, ri_checks))

\* a call of RangeIter::next_back
RiCallNextBack ==
    /\ ri_pc = "iter"
    /\ Len(ri_log) < MaxRiCalls
    /\ RiCall("next_back", RangeIterNextBack(ri_it, ri_checks))

RiNext ==
    \/ RiNew
    \/ RiNewPanic
    \/ RiCallNext
    \/ RiCallNextBack

(***************************************************************************)
(* SliceIter::next, one source item at a time, over a source that may      *)
(* never end.                                                              *)
(***************************************************************************)
MaxSiLen == 4

\* past this index no range of the model with an upper bound can match, and
\* an item that matches no range changes nothing but the index: the indices
\* above it are folded onto MaxSiPulls and MaxSiPulls + 1
MaxSiPulls == MaxRangeBound + 2

\* the match of SliceIter::next on the head range as it would be if the start
\* of a range with both bounds were not tested
SliceMatchIgnoresStart(range, idx) ==
    LET start == range[1]
        end == range[2]
    IN  IF start # NoneU /\ end # NoneU /\ idx <= end
        THEN [yield |-> TRUE, drop |-> idx = end]
        ELSE IF start # NoneU /\ end = NoneU /\ start <= idx
        THEN [yield |-> TRUE, drop |-> FALSE]
        ELSE IF start = NoneU /\ end # NoneU /\ idx <= end
        THEN [yield |-> TRUE, drop |-> idx = end]
        ELSE [yield |-> FALSE, drop |-> FALSE]

\* the match of SliceIter::next on the head range: whether the item is
\* yielded and whether the range is dropped (self.ranges.next())
SliceMatch(range, idx) ==
    LET start == range[1]
        end == range[2]
    IN  IF start # NoneU /\ end # NoneU /\ start <= idx /\ idx <= end
        THEN [yield |-> TRUE, drop |-> idx = end]
        ELSE IF start # NoneU /\ end = NoneU /\ start <= idx
        THEN [yield |-> TRUE, drop |-> FALSE]
        ELSE IF start = NoneU /\ end # NoneU /\ idx <= end
        THEN [yield |-> TRUE, drop |-> idx = end]
        ELSE [yield |-> FALSE, drop |-> FALSE]

\* self.source.next() has an item
SiSourceHasItem == si_inf \/ si_idx < si_len

\* SliceIter::new(source, ranges)
SiInit ==
    /\ si_pc = "call"
    /\ si_given \in RangeArgLists
    /\ si_ranges = si_given
    /\ \/ si_inf = TRUE /\ si_len = 0
       \/ si_inf = FALSE /\ si_len \in 0..MaxSiLen
    /\ si_idx = 0
    /\ si_out = <<>>

SiIdle ==
    /\ si_pc = "idle"
    /\ si_given = <<>>
    /\ si_ranges = <<>>
    /\ si_inf = FALSE
    /\ si_len = 0
    /\ si_idx = 0
    /\ si_out = <<>>

\* next(): `if self.ranges.peek().is_none() { return None; }`
SiNoRanges ==
    /\ si_pc = "call"
    /\ si_ranges = <<>>
    /\ si_pc' = "end"
    /\ UNCHANGED <<si_given, si_ranges, si_inf, si_len, si_idx, si_out>>
    /\ UNCHANGED notSi

\* next(): a range is left, the loop over the source is entered
SiEnter ==
    /\ si_pc = "call"
    /\ si_ranges # <<>>
    /\ si_pc' = "loop"
    /\ UNCHANGED <<si_given, si_ranges, si_inf, si_len, si_idx, si_out>>
    /\ UNCHANGED notSi

\* the loop pulls an item that the head range selects: next() returns it
SiYield ==
    /\ si_pc = "loop"
    /\ SiSourceHasItem
    /\ si_idx < MaxSiPulls
    /\ LET m == SliceMatch(Head(si_ranges), si_idx)
       IN  /\ m.yield
           /\ si_ranges' = IF m.drop THEN Tail(si_ranges) ELSE si_ranges
    /\ si_out' = Append(si_out, si_idx)
    /\ si_idx' = si_idx + 1
    /\ si_pc' = "call"
    /\ UNCHANGED <<si_given, si_inf, si_len>>
    /\ UNCHANGED notSi

\* the loop pulls an item that the head range does not select: `_ => continue`
SiSkip ==
    /\ si_pc = "loop"
    /\ SiSourceHasItem
    /\ ~SliceMatch(Head(si_ranges), si_idx).yield
    /\ si_idx' = IF si_idx <= MaxSiPulls THEN si_idx + 1 ELSE MaxSiPulls
    /\ UNCHANGED <<si_pc, si_given, si_ranges, si_inf, si_len, si_out>>
    /\ UNCHANGED notSi

\* the source is exhausted: the loop ends and next() returns None
SiSourceEnd ==
    /\ si_pc = "loop"
    /\ ~SiSourceHasItem
    /\ si_pc' = "end"
    /\ UNCHANGED <<si_given, si_ranges, si_inf, si_len, si_idx, si_out>>
    /\ UNCHANGED notSi

SiNext ==
    \/ SiNoRanges
    \/ SiEnter
    \/ SiYield
    \/ SiSkip
    \/ SiSourceEnd

(***************************************************************************)
(* parse_join in argv mode                                                 *)
(***************************************************************************)
MaxJoinArgs == 5

JoinWords == {"d", "::to", "2", "0", ":Upper", "to"}
JoinArgLists == UNION {[1..n -> JoinWords] : n \in 0..MaxJoinArgs}

\* str::parse::<usize>() on a word of the model
WordUsize(w) ==
    CASE w = "2" -> [ok |-> TRUE, v |-> 2]
      [] w = "0" -> [ok |-> TRUE, v |-> 0]
      [] OTHER -> [ok |-> FALSE, v |-> 0]

\* parse_opt_arg: the next word, escaped, unless it is a command
parse_opt_arg(args) ==
    IF args # <<>> /\ ~whole_cmd_token(Head(args))
    THEN [some |-> TRUE, val |-> escape(Head(args)), rest |-> Tail(args)]
    ELSE [some |-> FALSE, val |-> NoArg, rest |-> args]

\* parse_positive_usize: the next word when it is an integer above 0
parse_positive_usize(args) ==
    IF args # <<>> /\ WordUsize(Head(args)).ok /\ WordUsize(Head(args)).v > 0
    THEN [some |-> TRUE, val |-> WordUsize(Head(args)).v, rest |-> Tail(args)]
    ELSE [some |-> FALSE, val |-> 0, rest |-> args]

\* Iterator::next on the words: the first word, if any, is taken
ArgsNext(args) == IF args = <<>> THEN args ELSE Tail(args)

NewJoin(delimiter, prefix, postfix, batch, rest) ==
    [op |-> [kind |-> "Join",
             join_info |-> [delimiter |-> delimiter, prefix |-> prefix, postfix |-> postfix],
             batch |-> batch],
     rest |-> rest]

\* parse_join as it would be without the args.next() that follows the batch size
parse_joinKeepsNext(args) ==
    LET a == ArgsNext(args)
        d == parse_opt_arg(a)
        p == parse_opt_arg(d.rest)
        q == parse_opt_arg(p.rest)
        n == parse_positive_usize(q.rest)
    IN  IF ~d.some THEN NewJoin("", "", "", NoneU, d.rest)
        ELSE IF ~p.some THEN NewJoin(d.val, "", "", NoneU, p.rest)
        ELSE IF ~q.some THEN NewJoin(d.val, p.val, "", NoneU, q.rest)
        ELSE IF ~n.some THEN NewJoin(d.val, p.val, q.val, NoneU, n.rest)
        ELSE NewJoin(d.val, p.val, q.val, n.val, n.rest)

\* parse_join: the words are those from :join on
parse_join(args) ==
    LET a == ArgsNext(args)
        d == parse_opt_arg(a)
        p == parse_opt_arg(d.rest)
        q == parse_opt_arg(p.rest)
        n == parse_positive_usize(q.rest)
    IN  IF ~d.some THEN NewJoin("", "", "", NoneU, d.rest)
        ELSE IF ~p.some THEN NewJoin(d.val, "", "", NoneU, p.rest)
        ELSE IF ~q.some THEN NewJoin(d.val, p.val, "", NoneU, q.rest)
        ELSE IF ~n.some THEN NewJoin(d.val, p.val, q.val, NoneU, n.rest)
        ELSE NewJoin(d.val, p.val, q.val, n.val, ArgsNext(n.rest))

PjInit ==
    /\ pj_pc = "args"
    /\ pj_args \in { <<":join">> \o l : l \in JoinArgLists }
    /\ pj_op = NewJoin("", "", "", NoneU, <<>>).op
    /\ pj_rest = <<>>

PjIdle ==
    /\ pj_pc = "idle"
    /\ pj_args = <<>>
    /\ pj_op = NewJoin("", "", "", NoneU, <<>>).op
    /\ pj_rest = <<>>

\* parse_op dispatches :join to parse_join
PjParseJoin ==
    /\ pj_pc = "args"
    /\ pj_op' = parse_join(pj_args).op
    /\ pj_rest' = parse_join(pj_args).rest
    /\ pj_pc' = "done"
    /\ UNCHANGED pj_args
    /\ UNCHANGED notPj

PjNext ==
    \/ PjParseJoin

(***************************************************************************)
(* Specifications                                                          *)
(***************************************************************************)
InitSlice == SliceInit /\ GenIdle /\ CondIdle /\ JoinIdle /\ RunIdle /\ TdIdle /\ TextIdle /\ ParseIdle /\ LimitIdle /\ UniqIdle /\ WsIdle /\ OrdIdle /\ RiIdle /\ SiIdle /\ PjIdle
SpecSlice == InitSlice /\ [][SliceNext]_vars

InitGen == GenInit /\ SliceIdle /\ CondIdle /\ JoinIdle /\ RunIdle /\ TdIdle /\ TextIdle /\ ParseIdle /\ LimitIdle /\ UniqIdle /\ WsIdle /\ OrdIdle /\ RiIdle /\ SiIdle /\ PjIdle
SpecGen == InitGen /\ [][GenNext]_vars

InitCond == CondInit /\ SliceIdle /\ GenIdle /\ JoinIdle /\ RunIdle /\ TdIdle /\ TextIdle /\ ParseIdle /\ LimitIdle /\ UniqIdle /\ WsIdle /\ OrdIdle /\ RiIdle /\ SiIdle /\ PjIdle
SpecCond == InitCond /\ [][CondNext]_vars

InitJoin == JoinInit /\ SliceIdle /\ GenIdle /\ CondIdle /\ RunIdle /\ TdIdle /\ TextIdle /\ ParseIdle /\ LimitIdle /\ UniqIdle /\ WsIdle /\ OrdIdle /\ RiIdle /\ SiIdle /\ PjIdle
SpecJoin == InitJoin /\ [][JoinNext]_vars

InitRun == RunInit /\ SliceIdle /\ GenIdle /\ CondIdle /\ JoinIdle /\ TdIdle /\ TextIdle /\ ParseIdle /\ LimitIdle /\ UniqIdle /\ WsIdle /\ OrdIdle /\ RiIdle /\ SiIdle /\ PjIdle
SpecRun == InitRun /\ [][RunNext]_vars

InitTd == TdInit /\ SliceIdle /\ GenIdle /\ CondIdle /\ JoinIdle /\ RunIdle /\ TextIdle /\ ParseIdle /\ LimitIdle /\ UniqIdle /\ WsIdle /\ OrdIdle /\ RiIdle /\ SiIdle /\ PjIdle
SpecTd == InitTd /\ [][TdNext]_vars

InitText == TextInit /\ SliceIdle /\ GenIdle /\ CondIdle /\ JoinIdle /\ RunIdle /\ TdIdle /\ ParseIdle /\ LimitIdle /\ UniqIdle /\ WsIdle /\ OrdIdle /\ RiIdle /\ SiIdle /\ PjIdle
SpecText == InitText /\ [][TextNext]_vars

InitParse == ParseInit /\ SliceIdle /\ GenIdle /\ CondIdle /\ JoinIdle /\ RunIdle /\ TdIdle /\ TextIdle /\ LimitIdle /\ UniqIdle /\ WsIdle /\ OrdIdle /\ RiIdle /\ SiIdle /\ PjIdle
SpecParse == InitParse /\ [][ParseNext]_vars

InitLimit == LimitInit /\ SliceIdle /\ GenIdle /\ CondIdle /\ JoinIdle /\ RunIdle /\ TdIdle /\ TextIdle /\ ParseIdle /\ UniqIdle /\ WsIdle /\ OrdIdle /\ RiIdle /\ SiIdle /\ PjIdle
SpecLimit == InitLimit /\ [][LimitNext]_vars

InitUniq == UniqInit /\ SliceIdle /\ GenIdle /\ CondIdle /\ JoinIdle /\ RunIdle /\ TdIdle /\ TextIdle /\ ParseIdle /\ LimitIdle /\ WsIdle /\ OrdIdle /\ RiIdle /\ SiIdle /\ PjIdle
SpecUniq == InitUniq /\ [][UniqNext]_vars

InitWs == WsInit /\ SliceIdle /\ GenIdle /\ CondIdle /\ JoinIdle /\ RunIdle /\ TdIdle /\ TextIdle /\ ParseIdle /\ LimitIdle /\ UniqIdle /\ OrdIdle /\ RiIdle /\ SiIdle /\ PjIdle
SpecWs == InitWs /\ [][WsNext]_vars

InitOrd == OrdInit /\ SliceIdle /\ GenIdle /\ CondIdle /\ JoinIdle /\ RunIdle /\ TdIdle /\ TextIdle /\ ParseIdle /\ LimitIdle /\ UniqIdle /\ WsIdle /\ RiIdle /\ SiIdle /\ PjIdle
SpecOrd == InitOrd /\ [][OrdNext]_vars

InitRi == RiInit /\ SliceIdle /\ GenIdle /\ CondIdle /\ JoinIdle /\ RunIdle /\ TdIdle /\ TextIdle /\ ParseIdle /\ LimitIdle /\ UniqIdle /\ WsIdle /\ OrdIdle /\ SiIdle /\ PjIdle
SpecRi == InitRi /\ [][RiNext]_vars

InitSi == SiInit /\ SliceIdle /\ GenIdle /\ CondIdle /\ JoinIdle /\ RunIdle /\ TdIdle /\ TextIdle /\ ParseIdle /\ LimitIdle /\ UniqIdle /\ WsIdle /\ OrdIdle /\ RiIdle /\ PjIdle
SpecSi == InitSi /\ [][SiNext]_vars

InitPj == PjInit /\ SliceIdle /\ GenIdle /\ CondIdle /\ JoinIdle /\ RunIdle /\ TdIdle /\ TextIdle /\ ParseIdle /\ LimitIdle /\ UniqIdle /\ WsIdle /\ OrdIdle /\ RiIdle /\ SiIdle
SpecPj == InitPj /\ [][PjNext]_vars

\* the consumer keeps calling next() until it returns None, and a call that
\* has started keeps running
SpecSiLive == SpecSi /\ WF_vars(SiNext)

(***************************************************************************)
(* Properties of run and main                                              *)
(***************************************************************************)
\* the error the process ended with, through main or through termination()
RunErr ==
    IF run_st.err # "none" THEN run_st.err
    ELSE IF run_result \notin {"none", "Ok"} THEN run_result
    ELSE "none"

\* the code written on the variant in the documentation of RpErr
DocCode(kind) == CHOOSE i \in 1..Len(ErrKinds) : ErrKinds[i] = kind

\* C2: a process that ends with a fatal error exits with the code documented
\* on the variant of the error (ParseConfigTokenErr = 1 up to ParseRegexErr = 15):
\* positive, never the 0 of success, and different for different kinds of error.
C2_ExitCodeIsDocumented ==
    (run_pc = "exited" /\ RunErr # "none") =>
        /\ run_exit = DocCode(RunErr)
        /\ run_exit > 0
        /\ \A i, j \in 1..Len(ErrKinds) :
              i # j => exit_code(ErrKinds[i]) # exit_code(ErrKinds[j])

\* nothing has been read from the Source, no :peek has acted, the output is untouched
NoEffects ==
    /\ run_st.reads = 0
    /\ ~run_st.opened
    /\ run_st.peeked = <<>>
    /\ ~run_st.peekFile
    /\ run_out = NoOutput

ParseErrors == {"MissingArg", "ArgParseErr", "UnexpectedRemaining", "UnknownArgs",
                "ParseRegexErr"}

\* C3: until the parser has returned the whole pipeline nothing is read from the
\* Source and no Stage or Sink side effect happens; a run whose command line
\* does not parse ends with the parser's error (returned by run, or reported
\* by the parser's own termination) and without any such effect.
C3_ParseBeforeRun ==
    /\ ~run_parsed => NoEffects
    /\ run_result \in ParseErrors => (~run_parsed /\ NoEffects)
    /\ (/\ run_pc \in {"returned", "exited"}
        /\ run_args.configs \cap {"Help", "Version"} = {}
        /\ ParseErrorOf(run_args) # "none")
          => (RunErr = ParseErrorOf(run_args) /\ ~run_parsed /\ NoEffects)

\* a command line that reads the clipboard failed to parse and the process
\* has ended
C3_Witness ==
    /\ run_pc = "exited"
    /\ run_result \in ParseErrors
    /\ run_args.input = "Clip"
    /\ run_args.items # <<>>

\* C4 as stated: with --dry-run nothing is read from the Source, no :peek side
\* effect happens and nothing is written to the Sink, whatever the pipeline.
C4_DryRunExecutesNothing ==
    "DryRun" \in run_args.configs => NoEffects

\* the failure of the Source or of the Sink that has happened in the run, if any
IoFailure == IF run_st.failed # "none" THEN run_st.failed ELSE run_out.failed

SourceSinkFailures == {"clip_read", "open_in", "read_in", "read_stdin",
                       "open_out", "write_out", "clip_write"}

\* the errors that correspond to a failure
FailureErrors(f) ==
    CASE f = "clip_read" -> {"ReadClipboardTextErr"}
      [] f \in {"open_in", "open_out"} -> {"OpenFileErr"}
      [] f = "read_in" -> {"ReadFromFileErr"}
      [] f = "write_out" -> {"WriteToFileErr"}
      [] f = "clip_write" -> {"WriteToClipboardErr"}
      [] OTHER -> Range(ErrKinds)

\* C13 as stated: a read failure in the Source (a stdin line, opening an input
\* file, a file line, the clipboard) and a write failure in the Sink is fatal:
\* the pipeline stops at once and the run ends with the corresponding error,
\* never with success.
C13_IoFailureIsFatal ==
    IoFailure \in SourceSinkFailures =>
        /\ run_pc \in {"returned", "exited"}
        /\ RunErr \in FailureErrors(IoFailure)
        /\ run_result # "Ok"

(***************************************************************************)
(* Properties of :slice                                                    *)
(***************************************************************************)
SliceExampleRun == sl_args = ExampleRanges /\ sl_len = ExampleLen

\* C1: :slice with the ranges (0,5), (7,10), (3,9), given in that order, over
\* 11 items yields every index 0..10 exactly once, in ascending order: the
\* overlapping ranges are merged and nothing is duplicated.
C1_SliceYieldsAllIndices ==
    (SliceExampleRun /\ sl_pc = "end") => sl_out = [i \in 1..ExampleLen |-> i - 1]

\* What the iterator yields for the example: the indices 0..5 and 7..10, once
\* each and in ascending order.  Index 6 is passed while (7,10) is the head
\* range, and (3,9) becomes the head only when the source is exhausted.
SliceExampleSkipsIndexSix ==
    (SliceExampleRun /\ sl_pc = "end") =>
        /\ sl_out = <<0, 1, 2, 3, 4, 5, 7, 8, 9, 10>>
        /\ sl_ranges = << <<3, 9>> >>
        /\ sl_idx = ExampleLen

\* Every index the iterator yields lies in one of the ranges given, is
\* yielded once, and the indices ascend.
SliceYieldsInsideUnion ==
    /\ \A i \in 1..Len(sl_out) :
          \E k \in 1..Len(parse_slice_ranges(sl_args)) :
             LET r == parse_slice_ranges(sl_args)[k]
             IN  (r[1] = NoneU \/ r[1] <= sl_out[i]) /\ (r[2] = NoneU \/ sl_out[i] <= r[2])
    /\ \A i \in 1..Len(sl_out) - 1 : sl_out[i] < sl_out[i + 1]

(***************************************************************************)
(* Properties of conditions                                                *)
(***************************************************************************)
\* the value of a Num in 1/FloatScale units, exactly
Scaled(n) == IF n.t = "Integer" THEN n.v * FloatScale ELSE n.v

\* C7: a non-negated `len` or `num` range condition on an item whose value is
\* defined is true iff every bound that is present is satisfied by that
\* value, bounds being inclusive; with both bounds absent it is true.
C7_RangeIffBoundsSatisfied ==
    cond_pc = "tested" =>
        /\ cond_select.kind = "TextLenRange" =>
              (cond_yes <=>
                 /\ (cond_select.min # NoneU => Len(cond_input) >= cond_select.min)
                 /\ (cond_select.max # NoneU => Len(cond_input) <= cond_select.max))
        /\ (cond_select.kind = "NumRange" /\ ParseNum(cond_input).ok) =>
              (cond_yes <=>
                 /\ (cond_select.min # NoNum =>
                        Scaled(ParseNum(cond_input).num) >= Scaled(cond_select.min))
                 /\ (cond_select.max # NoNum =>
                        Scaled(ParseNum(cond_input).num) <= Scaled(cond_select.max)))

\* the item and both bounds are Floats or integers that a Float holds exactly
HeldExactly(n) == n = NoNum \/ RoundFloat(Scaled(n)) = Scaled(n)

\* Where the item and the bounds are held exactly the range condition is
\* the conjunction of the inclusive bound tests.
RangeIffBoundsSatisfiedWhenExact ==
    (/\ cond_pc = "tested"
     /\ cond_select.kind = "NumRange"
     /\ ParseNum(cond_input).ok
     /\ HeldExactly(ParseNum(cond_input).num)
     /\ HeldExactly(cond_select.min) /\ HeldExactly(cond_select.max)) =>
        (cond_yes <=>
           /\ (cond_select.min # NoNum =>
                  Scaled(ParseNum(cond_input).num) >= Scaled(cond_select.min))
           /\ (cond_select.max # NoNum =>
                  Scaled(ParseNum(cond_input).num) <= Scaled(cond_select.max)))

\* C8: for every Select and every item the negated condition is the exact
\* complement of the non-negated one.
C8_NotIsComplement ==
    cond_pc = "tested" => (cond_not <=> ~cond_yes)

\* a negated `reg` condition has been true on an item the regex does not match
C8_Witness ==
    /\ cond_pc = "tested"
    /\ cond_select.kind = "RegMatch"
    /\ cond_not
    /\ ~cond_yes

\* items that are no finite number: empty, holding a letter, blank or a
\* non-ASCII character, or one of the non-finite float literals
NotANumber(s) ==
    \/ s = <<>>
    \/ s \in NonFiniteItems
    \/ \E i \in 1..Len(s) : s[i] \in {"a", "B", " ", "U4E2D"}
    \/ ~ParseNum(s).ok

\* C9: a `num` range or exact-value condition on an item that is not a
\* finite number is false, whatever the bounds, and its negation is true.
C9_NotANumberIsFalse ==
    (/\ cond_pc = "tested"
     /\ cond_select.kind \in {"NumRange", "NumSpec"}
     /\ NotANumber(cond_input)) => (~cond_yes /\ cond_not)

\* NaN has been tested against a range without bounds
C9_Witness ==
    /\ cond_pc = "tested"
    /\ cond_select = [kind |-> "NumRange", min |-> NoNum, max |-> NoNum]
    /\ cond_input = <<"N", "a", "N">>
    /\ ~cond_yes
    /\ cond_not

(***************************************************************************)
(* Properties of the chunked :join                                         *)
(***************************************************************************)
CeilDiv(n, d) == (n + d - 1) \div d

\* the upstream items that belong to the i-th chunk
ChunkOf(i) ==
    SubSeq(cj_upstream, (i - 1) * cj_batch + 1, Min(i * cj_batch, Len(cj_upstream)))

\* C10: chunked :join over n items with batch size N emits ceil(n/N) items;
\* the i-th is prefix + (the i-th run of N consecutive upstream items joined
\* by the delimiter) + postfix, the last one holds the n mod N remaining
\* items, nothing is lost or repeated, and an empty upstream yields nothing.
C10_ChunkJoinCoversUpstream ==
    /\ cj_pc \in {"iter", "end"} =>
          /\ Len(cj_out) <= CeilDiv(Len(cj_upstream), cj_batch)
          /\ \A i \in 1..Len(cj_out) :
                /\ cj_out[i] = cj_info.prefix \o StrJoin(ChunkOf(i), cj_info.delimiter)
                                              \o cj_info.postfix
                /\ cj_taken[i] = Len(ChunkOf(i))
                /\ cj_taken[i] = IF i * cj_batch <= Len(cj_upstream)
                                 THEN cj_batch
                                 ELSE Len(cj_upstream) % cj_batch
    /\ cj_pc = "end" =>
          /\ Len(cj_out) = CeilDiv(Len(cj_upstream), cj_batch)
          /\ cj_source = <<>>
          /\ (Len(cj_upstream) = 7 /\ cj_batch = 3) => cj_taken = <<3, 3, 1>>

\* 7 items have been joined with batch size 3
C10_Witness ==
    /\ cj_pc = "end"
    /\ Len(cj_upstream) = 7
    /\ cj_batch = 3
    /\ Len(cj_out) = 3
    /\ cj_taken = <<3, 3, 1>>

(***************************************************************************)
(* Properties of :gen                                                      *)
(***************************************************************************)
\* C5: for every start, end, inclusivity and positive step the range iterator
\* yields exactly start, start+step, start+2*step, ... in that order, stops
\* before the first value past the end bound, and yields nothing when start
\* is already past the end.
C5_GenAscending ==
    gen_step > 0 =>
        /\ gen_pc # "panic"
        /\ IsPrefix(gen_out, Ascending(gen_start, gen_end, gen_included, gen_step))
        /\ gen_pc = "end" =>
               gen_out = Ascending(gen_start, gen_end, gen_included, gen_step)

\* C6: for every start, end, inclusivity and nonzero step s the sequence
\* generated with step -s is the reverse of the one generated with s: both
\* runs end, and they yield the same integers in opposite order.
C6_NegatedStepReverses ==
    (gen_pc = "end" /\ -gen_step \in Integer) =>
        LET other == Collect(gen_start, gen_end, gen_included, -gen_step, gen_checks)
        IN  other.status = "end" /\ gen_out = Reverse(other.seq)

\* the inputs for which no cursor computation leaves the Integer range:
\* |s|, end - 1, last + |s| and start - |s| are representable
CursorsRepresentable ==
    /\ -gen_step \in Integer
    /\ LastOf(gen_end, gen_included) \in Integer
    /\ LastOf(gen_end, gen_included) + Abs(gen_step) \in Integer
    /\ gen_start - Abs(gen_step) \in Integer

StepDividesSpan ==
    \/ gen_start > LastOf(gen_end, gen_included)
    \/ (LastOf(gen_end, gen_included) - gen_start) % Abs(gen_step) = 0

\* What the iterator does where no cursor overflows: a positive step counts up
\* from start, a negative step counts down from the last integer inside the
\* end bound, and the two sequences are the reverse of each other exactly
\* when |s| divides last - start or the range is empty.
GenAnchoredAtBounds ==
    CursorsRepresentable =>
        /\ gen_pc # "panic"
        /\ gen_pc = "end" =>
            LET other == Collect(gen_start, gen_end, gen_included, -gen_step, gen_checks)
            IN  /\ other.status = "end"
                /\ gen_step > 0 =>
                      /\ gen_out = Ascending(gen_start, gen_end, gen_included, gen_step)
                      /\ other.seq = Descending(gen_start, gen_end, gen_included, gen_step)
                /\ gen_step < 0 =>
                      /\ gen_out = Descending(gen_start, gen_end, gen_included, -gen_step)
                      /\ other.seq = Ascending(gen_start, gen_end, gen_included, -gen_step)
                /\ (gen_out = Reverse(other.seq)) <=> StepDividesSpan

\* The reversal restricted to the inputs where |s| divides last - start, for
\* which counting down from the end bound and reversing the ascending sequence
\* name the same integers
NegatedStepReversesAlignedSpan ==
    (gen_pc = "end" /\ -gen_step \in Integer /\ StepDividesSpan) =>
        LET other == Collect(gen_start, gen_end, gen_included, -gen_step, gen_checks)
        IN  other.status = "end" /\ gen_out = Reverse(other.seq)

(***************************************************************************)
(* Properties of :take while and :drop while                               *)
(***************************************************************************)
\* number of leading items of s that all satisfy the condition
RECURSIVE SatisfiedPrefixLen(_, _)
SatisfiedPrefixLen(s, cond) ==
    IF s = <<>> \/ ~CondTestOf(cond, Head(s)) THEN 0
    ELSE 1 + SatisfiedPrefixLen(Tail(s), cond)

\* C11: `:take while <cond>` emits exactly the longest prefix of the upstream
\* whose items all satisfy the condition; once an item has failed the condition
\* nothing is emitted any more, also when a later item satisfies the condition.
C11_TakeWhileLongestPrefix ==
    td_mode = "TakeWhile" =>
        LET n == SatisfiedPrefixLen(td_upstream, td_cond)
        IN  /\ IsPrefix(td_out, SubSeq(td_upstream, 1, n))
            /\ td_flag => td_out = SubSeq(td_upstream, 1, n)
            /\ td_pc = "end" => td_out = SubSeq(td_upstream, 1, n)

\* a :take while has ended after emitting an item, with an item that satisfies
\* the condition after the first failing one
C11_Witness ==
    /\ td_mode = "TakeWhile"
    /\ td_pc = "end"
    /\ Len(td_out) >= 1
    /\ \E i \in (Len(td_out) + 2)..Len(td_upstream) : CondTestOf(td_cond, td_upstream[i])

\* C12: `:drop while <cond>` drops exactly the longest prefix of the upstream
\* whose items all satisfy the condition and passes every remaining item in
\* order, from the first failing item on, whether or not it satisfies the condition.
C12_DropWhilePassesRemainder ==
    td_mode = "DropWhile" =>
        LET n == SatisfiedPrefixLen(td_upstream, td_cond)
            rest == SubSeq(td_upstream, n + 1, Len(td_upstream))
        IN  /\ IsPrefix(td_out, rest)
            /\ td_pc = "end" => td_out = rest

\* a :drop while has ended after dropping an item and passing, after the first
\* failing item, an item that satisfies the condition
C12_Witness ==
    /\ td_mode = "DropWhile"
    /\ td_pc = "end"
    /\ SatisfiedPrefixLen(td_upstream, td_cond) >= 1
    /\ Len(td_out) >= 2
    /\ \E i \in 2..Len(td_out) : CondTestOf(td_cond, td_out[i])

(***************************************************************************)
(* Properties of :replace and :trim                                        *)
(***************************************************************************)
\* the operator built from the parsed arguments and applied to an item
ApplyTextOp(op, text, nocaseConfig) ==
    IF op.kind = "Replace"
    THEN LET arg == ReplaceArgNew(op.from, op.to, op.count, op.nocase)
         IN  IF arg.count = 0 THEN text ELSE ReplaceArgReplace(arg, text, nocaseConfig)
    ELSE TrimArgTrim(TrimArgNew(op.trim_mode, op.pattern, op.char_mode, op.nocase),
                     text, nocaseConfig)

\* C14 as stated: with the process-wide nocase option an operator gives, on
\* every item and for every pattern, the result the same operator gives with
\* its own `nocase` flag and without the option.
C14_GlobalNocaseIsOwnFlag ==
    (tx_pc = "done" /\ tx_nocase) =>
        tx_result = ApplyTextOp([tx_op EXCEPT !.nocase = TRUE], tx_text, FALSE)


(***************************************************************************)
(* Properties of the command line parsers                                  *)
(***************************************************************************)
ParseDone == ps_pc \in {"parsed", "ran", "failed"} /\ ps_args # NoToken

\* the documented output commands that fit in MaxArgs words, with their sinks
OutputForms ==
    {[words |-> <<":to", "out">>, sink |-> StdOutOutput],
     [words |-> <<":to", "file", "f">>, sink |-> new_file("f", FALSE, NoArg)],
     [words |-> <<":to", "file", "f", "append">>, sink |-> new_file("f", TRUE, NoArg)],
     [words |-> <<":to", "file", "f", "lf">>, sink |-> new_file("f", FALSE, "lf")],
     [words |-> <<":to", "file", "f", "crlf">>, sink |-> new_file("f", FALSE, "crlf")],
     [words |-> <<":to", "clip">>, sink |-> new_clip(NoArg)],
     [words |-> <<":to", "clip", "lf">>, sink |-> new_clip("lf")],
     [words |-> <<":to", "clip", "crlf">>, sink |-> new_clip("crlf")]}

\* command lines without an output command
NoOutputLines == {<<>>, <<":Upper">>, <<":of", "f">>, <<":of", "f", ":Upper">>}

\* C15: in argv mode as in token mode, `:to out`, `:to file <name> [append]
\* [lf|crlf]` and `:to clip [lf|crlf]` at the end of the command line parse to
\* the StdOut, File and Clip sinks with the given name, append flag and line
\* ending, and a command line without an output command selects StdOut.
C15_ToIntroducesOutput ==
    ParseDone =>
        /\ \A form \in OutputForms : \A pre \in {<<>>, <<":Upper">>} :
               ps_args = pre \o form.words =>
                   ps_result.kind = "Ok" /\ ps_result.output = form.sink
        /\ ps_args \in NoOutputLines =>
               ps_result.kind = "Ok" /\ ps_result.output = StdOutOutput

\* the words the input, operator and output parsers leave, when none of them fails
FamiliesParsed ==
    IF ps_mode = "args"
    THEN LET input == parse_input(ps_args)
             ops == parse_ops(input.rest)
             output == parse_output(ops.rest)
         IN  IF input.err # "none" THEN [ok |-> FALSE, rest |-> <<>>]
             ELSE IF ops.err # "none" THEN [ok |-> FALSE, rest |-> <<>>]
             ELSE [ok |-> output.err = "none", rest |-> output.rest]
    ELSE [ok |-> TRUE, rest |-> parse_without_configs(ps_args, ps_windows).remaining]

IsSuffix(s, t) == Len(s) <= Len(t) /\ s = SubSeq(t, Len(t) - Len(s) + 1, Len(t))

\* C16: parsing succeeds only if every word has been consumed by the input,
\* operator or output parsers; when words remain after the output command,
\* argv mode returns UnknownArgs carrying exactly the remaining words, token
\* mode returns UnexpectedRemaining, and the pipeline is not run.
C16_RemainingTokensRejected ==
    ParseDone =>
        /\ IsSuffix(FamiliesParsed.rest, ps_args)
        /\ ps_result.kind = "Ok" => FamiliesParsed.ok /\ FamiliesParsed.rest = <<>>
        /\ FamiliesParsed.ok /\ FamiliesParsed.rest # <<>> =>
               /\ ps_result.kind =
                      IF ps_mode = "args" THEN "UnknownArgs" ELSE "UnexpectedRemaining"
               /\ ps_result.remaining = FamiliesParsed.rest
               /\ ps_pc # "ran"
        /\ ps_args \in {<<":bad">>, <<":Upper", ":bad">>, <<":of", "f", ":bad">>} =>
               /\ ps_result.kind \in {"UnknownArgs", "UnexpectedRemaining"}
               /\ ps_result.remaining = <<":bad">>
        /\ ps_pc = "ran" => ps_result.kind = "Ok"

C16_Witness ==
    /\ ps_pc = "failed"
    /\ ps_mode = "args"
    /\ ps_args = <<":of", "f", ":Upper", ":bad">>
    /\ ps_result.kind = "UnknownArgs"
    /\ ps_result.remaining = <<":bad">>

\* the command lines whose first word is a command keyword and whose required
\* argument is missing, with the keyword
MissingArgLine ==
    /\ ps_args # <<>>
    /\ \/ /\ Head(ps_args) \in {":file", ":of"}
          /\ Len(ps_args) = 1 \/ whole_cmd_token(ps_args[2])
       \/ /\ Head(ps_args) = ":replace"
          /\ Len(ps_args) <= 2

\* C17: once the keyword of a command has matched the next word, a failure to
\* parse its arguments is returned as a hard error of that command, with no
\* fallback to another alternative or to the default stdin input or stdout
\* output, in argv mode and in token mode.
C17_KeywordCommits ==
    ParseDone /\ MissingArgLine =>
        /\ ps_result.kind = "MissingArg"
        /\ ps_result.cmd = Head(ps_args)


(***************************************************************************)
(* Properties of :limit and :skip                                          *)
(***************************************************************************)
\* the upstream items from..to - 1, in upstream order
UpstreamItems(from, to) == [i \in 1..(IF to > from THEN to - from ELSE 0) |-> from + i - 1]

MinOf(a, b) == IF a < b THEN a ELSE b

IsPrefixOf(s, t) == Len(s) <= Len(t) /\ s = SubSeq(t, 1, Len(s))

LimitExpected ==
    IF lm_cmd = "limit" THEN UpstreamItems(0, MinOf(lm_count, lm_len))
    ELSE UpstreamItems(lm_count, lm_len)

\* C18: `:limit n` is the slice range (None, n-1) and passes exactly the first
\* n upstream items (none when n = 0); `:skip n` is the slice range (n, None)
\* and passes exactly the items that follow the first n; both keep the
\* upstream order.
C18_LimitSkipAreSlices ==
    /\ lm_pc = "op" /\ lm_cmd = "limit" /\ lm_count > 0 =>
           lm_ranges = << <<NoneU, lm_count - 1>> >>
    /\ lm_pc = "op" /\ lm_cmd = "skip" => lm_ranges = << <<lm_count, NoneU>> >>
    /\ lm_pc = "iter" => IsPrefixOf(lm_out, LimitExpected)
    /\ lm_pc = "end" => lm_out = LimitExpected

C18_Witness ==
    /\ lm_pc = "end"
    /\ lm_cmd = "limit"
    /\ lm_count = 2
    /\ lm_len = 4
    /\ lm_out = <<0, 1>>

(***************************************************************************)
(* Properties of :uniq                                                     *)
(***************************************************************************)
\* the case-folded text of the items of the model
FoldedText(item) ==
    CASE item \in {<<"A">>, <<"a">>} -> "a"
      [] item = <<"B">> -> "b"
      [] item \in {<<"a", "b">>, <<"A", "B">>} -> "ab"
      [] item = <<"é">> -> "é"
      [] item = <<"É">> -> "É"

\* the key the claim gives an item
ClaimedKey(item) == IF uq_nocase \/ uq_global THEN <<FoldedText(item)>> ELSE item

\* the items of the first n upstream items that are the first occurrence of their key
RECURSIVE FirstOccurrences(_)
FirstOccurrences(n) ==
    IF n = 0 THEN <<>>
    ELSE IF \E j \in 1..(n - 1) : ClaimedKey(uq_upstream[j]) = ClaimedKey(uq_upstream[n])
         THEN FirstOccurrences(n - 1)
         ELSE Append(FirstOccurrences(n - 1), uq_upstream[n])

\* C19: :uniq emits exactly the items that are the first occurrence of their
\* key, in input order and with their original text, where the key is the item
\* or, with nocase, the item with its (ASCII) case folded; `:uniq nocase` over
\* A, a, B yields A, B.
C19_UniqKeepsFirstOccurrences ==
    /\ uq_pc = "iter" => uq_out = FirstOccurrences(uq_pos)
    /\ uq_pc = "end" => uq_out = FirstOccurrences(Len(uq_upstream))
    /\ uq_pc = "end" /\ uq_nocase /\ uq_upstream = << <<"A">>, <<"a">>, <<"B">> >> =>
           uq_out = << <<"A">>, <<"B">> >>

C19_Witness ==
    /\ uq_pc = "end"
    /\ uq_nocase
    /\ ~uq_global
    /\ uq_upstream = << <<"A">>, <<"a">>, <<"B">> >>
    /\ uq_out = << <<"A">>, <<"B">> >>

(***************************************************************************)
(* Properties of trim in substring mode                                    *)
(***************************************************************************)
Abab == <<"a", "b", "a", "b">>
Abcabc123 == <<"a", "b", "c", "a", "b", "c", "1", "2", "3">>

\* s and t are the same text, up to ASCII case when fold is set
SameText(s, t, fold) == IF fold THEN ToAsciiLowerStr(s) = ToAsciiLowerStr(t) ELSE s = t

\* text literally starts / ends with pattern
StartsWith(text, pattern, fold) ==
    Len(pattern) <= Len(text) /\ SameText(SubSeq(text, 1, Len(pattern)), pattern, fold)
EndsWith(text, pattern, fold) ==
    /\ Len(pattern) <= Len(text)
    /\ SameText(SubSeq(text, Len(text) - Len(pattern) + 1, Len(text)), pattern, fold)

\* text without one occurrence of pattern at the leading / trailing boundary
WithoutLeading(text, pattern, fold) ==
    IF StartsWith(text, pattern, fold)
    THEN SubSeq(text, Len(pattern) + 1, Len(text)) ELSE text
WithoutTrailing(text, pattern, fold) ==
    IF EndsWith(text, pattern, fold)
    THEN SubSeq(text, 1, Len(text) - Len(pattern)) ELSE text

SubstringTrimDone ==
    /\ tx_pc = "done"
    /\ tx_op.kind = "Trim"
    /\ ~tx_op.char_mode
    /\ tx_op.pattern.some
    /\ tx_op.pattern.s # <<>>
    /\ ~tx_nocase

\* C20: in substring mode one application of trim removes at most one occurrence
\* of the whole pattern from the leading boundary and at most one from the
\* trailing boundary, according to its position, and leaves the item unchanged
\* when the boundary does not literally start / end with the pattern: "ab" from
\* both ends of "abab" gives "", "ba" from "abab" leaves it unchanged, and
\* left-trimming "abc" from "abcabc123" gives "abc123".
C20_SubstringTrimOnce ==
    SubstringTrimDone =>
        LET pattern == tx_op.pattern.s
            fold == tx_op.nocase
            leading == WithoutLeading(tx_text, pattern, fold)
        IN  /\ tx_op.trim_mode = "Left" => tx_result = leading
            /\ tx_op.trim_mode = "Right" => tx_result = WithoutTrailing(tx_text, pattern, fold)
            /\ tx_op.trim_mode = "All" => tx_result = WithoutTrailing(leading, pattern, fold)
            /\ Len(tx_text) - Len(tx_result) \in {0, Len(pattern), 2 * Len(pattern)}
            /\ tx_op = TrimExample("All", <<"a", "b">>, Abab).op /\ tx_text = Abab =>
                   tx_result = <<>>
            /\ tx_op = TrimExample("All", <<"b", "a">>, Abab).op /\ tx_text = Abab =>
                   tx_result = Abab
            /\ tx_op = TrimExample("Left", <<"a", "b", "c">>, Abcabc123).op
               /\ tx_text = Abcabc123 =>
                   tx_result = <<"a", "b", "c", "1", "2", "3">>

C20_Witness ==
    /\ SubstringTrimDone
    /\ tx_op = TrimExample("All", <<"a", "b">>, Abab).op
    /\ tx_text = Abab
    /\ tx_result = <<>>

(***************************************************************************)
(* Properties of trim in character-set mode                                *)
(***************************************************************************)
\* c belongs to the set of characters of pattern, up to ASCII case when fold is set
InCharSet(c, pattern, fold) ==
    \E k \in 1..Len(pattern) :
        IF fold THEN ToAsciiLower(c) = ToAsciiLower(pattern[k]) ELSE c = pattern[k]

\* number of leading / trailing characters of text up to the first one outside the set
LeadingInSet(text, pattern, fold) ==
    CHOOSE n \in 0..Len(text) :
        /\ \A i \in 1..n : InCharSet(text[i], pattern, fold)
        /\ n = Len(text) \/ ~InCharSet(text[n + 1], pattern, fold)
TrailingInSet(text, pattern, fold) ==
    CHOOSE n \in 0..Len(text) :
        /\ \A i \in 1..n : InCharSet(text[Len(text) + 1 - i], pattern, fold)
        /\ n = Len(text) \/ ~InCharSet(text[Len(text) - n], pattern, fold)

WithoutLeadingSet(text, pattern, fold) ==
    SubSeq(text, LeadingInSet(text, pattern, fold) + 1, Len(text))
WithoutTrailingSet(text, pattern, fold) ==
    SubSeq(text, 1, Len(text) - TrailingInSet(text, pattern, fold))

CharSetTrimDone ==
    /\ tx_pc = "done"
    /\ tx_op.kind = "Trim"
    /\ tx_op.char_mode
    /\ tx_op.pattern.some
    /\ tx_op.pattern.s # <<>>
    /\ ~tx_nocase

\* C21: in character-set mode the result depends only on the set of characters
\* of the pattern, not on their order or repetition, and every leading and / or
\* trailing character (according to the position) that belongs to the set is
\* removed up to the first character outside it: "abab" with pattern "ab" or
\* "ba" gives "".
C21_CharSetTrim ==
    CharSetTrimDone =>
        LET pattern == tx_op.pattern.s
            fold == tx_op.nocase
            leading == WithoutLeadingSet(tx_text, pattern, fold)
        IN  /\ tx_op.trim_mode = "Left" => tx_result = leading
            /\ tx_op.trim_mode = "Right" =>
                   tx_result = WithoutTrailingSet(tx_text, pattern, fold)
            /\ tx_op.trim_mode = "All" =>
                   tx_result = WithoutTrailingSet(leading, pattern, fold)
            /\ \A other \in TxPatterns :
                   Range(other) = Range(pattern) =>
                       tx_result = ApplyTextOp([tx_op EXCEPT !.pattern = SomePattern(other)],
                                               tx_text, FALSE)
            /\ tx_text = Abab /\ tx_op.trim_mode = "All"
               /\ pattern \in {<<"a", "b">>, <<"b", "a">>} => tx_result = <<>>

C21_Witness ==
    /\ CharSetTrimDone
    /\ tx_op.trim_mode = "All"
    /\ ~tx_op.nocase
    /\ tx_op.pattern.s = <<"b", "a">>
    /\ tx_text = Abab
    /\ tx_result = <<>>

(***************************************************************************)
(* Properties of the whole-stream stages                                   *)
(***************************************************************************)
\* number of positions of s that hold x
Occurrences(s, x) == Cardinality({i \in 1..Len(s) : s[i] = x})

IsPermutationOf(s, t) ==
    Len(s) = Len(t) /\ \A x \in Range(s) \cup Range(t) : Occurrences(s, x) = Occurrences(t, x)

\* the items of the model that are integers, and the integer they stand for
IsIntegerItem(item) == item \in { <<"1">>, <<"5">>, <<"1", "5">>, <<"-", "1">>, <<"+", "5">> }
IntegerOf(item) ==
    CASE item = <<"1">> -> 1 [] item = <<"5">> -> 5 [] item = <<"1", "5">> -> 15
      [] item = <<"-", "1">> -> -1 [] item = <<"+", "5">> -> 5

\* the key the claim ranks an item with
RankKey(item) == IF IsIntegerItem(item) THEN IntegerOf(item) ELSE ws_op.sort_by.def

\* what the stage has delivered and still holds, in order
WsSorted == ws_out \o ws_buf

\* `:sort num <d> desc` with an integer default has run
SortNumDesc ==
    /\ ws_pc \in {"iter", "end"}
    /\ ws_op.kind = "Sort"
    /\ ws_op.sort_by.kind = "Num"
    /\ ws_op.sort_by.some
    /\ ws_op.desc

\* C22: for `:sort num <d> desc` with an integer default d, every item that does
\* not parse as an integer is ranked with key d and every other item with its
\* integer value, and the output is a permutation of the input whose keys are
\* in non-ascending order.
C22_SortNumDescByKey ==
    SortNumDesc =>
        /\ IsPermutationOf(WsSorted, ws_upstream)
        /\ \A i, j \in 1..Len(WsSorted) :
               i < j => RankKey(WsSorted[i]) >= RankKey(WsSorted[j])
        /\ ws_pc = "end" => ws_out = WsSorted

C22_Witness ==
    /\ ws_pc = "end"
    /\ ws_op = parse_sort(<<"num", "10", "desc">>).op
    /\ SortNumDesc
    /\ ws_upstream = << <<"a">>, <<"5">>, <<"1", "5">> >>
    /\ ws_out = << <<"1", "5">>, <<"a">>, <<"5">> >>

\* C25: :sort, :sort random and :count deliver no item downstream before their
\* upstream has reported end of stream; :count then delivers exactly one item,
\* the decimal count of the upstream items ("0" for an empty upstream).
C25_WholeStreamWaitsForEnd ==
    /\ ws_pc # "idle" /\ ~ws_ended => ws_out = <<>> /\ ws_buf = <<>>
    /\ ws_ended => ws_pos = Len(ws_upstream)
    /\ ws_pc = "end" /\ ws_op.kind = "Count" =>
           /\ ws_out = <<ToDecimal(Len(ws_upstream))>>
           /\ ws_upstream = <<>> => ws_out = << <<"0">> >>
    /\ ws_pc = "end" /\ ws_op.kind # "Count" => IsPermutationOf(ws_out, ws_upstream)

C25_Witness ==
    /\ ws_pc = "end"
    /\ ws_op.kind = "Count"
    /\ Len(ws_upstream) = 3
    /\ ws_ended
    /\ ws_out = << <<"3">> >>

(***************************************************************************)
(* Order of the items through a pipeline without a sort stage              *)
(***************************************************************************)
OrdHasSort == \E i \in 1..Len(od_ops) : od_ops[i].kind = "Sort"

\* every item derives from source items that come before those of the items after it
InSourceOrder(items) ==
    \A i, j \in 1..Len(items) :
        i < j => \A a \in items[i].from : \A b \in items[j].from : a < b

\* the stages that pass items on unchanged or not at all
OrdOnlySelects ==
    \A i \in 1..Len(od_ops) : od_ops[i].kind \in {"Peek", "Uniq", "TakeDrop", "Slice"}

\* C23: in a pipeline without a sort stage the items reaching the sink are in
\* the order of the source items they derive from, whatever map, filter,
\* slice, peek, join or count stages it is made of; when the stages only
\* select items, what the sink receives are source items at increasing positions
C23_OrderPreservedWithoutSort ==
    (od_pc \in {"wrap", "sink", "done"} /\ ~OrdHasSort) =>
        /\ InSourceOrder(od_items)
        /\ InSourceOrder(od_out)
        /\ (od_pc = "done" /\ OrdOnlySelects) =>
              \A i \in 1..Len(od_out) :
                  \E p \in 1..Len(od_src) :
                      /\ od_out[i].from = {p}
                      /\ od_out[i].text = od_src[p]

\* a pipeline of a filter and a map over three items has handed two of them to the sink
C23_Witness ==
    /\ od_pc = "done"
    /\ od_src = << <<"1">>, <<"a">>, <<"A">> >>
    /\ Len(od_ops) = 2
    /\ od_ops[1].kind = "TakeDrop" /\ od_ops[1].mode = "Drop"
    /\ od_ops[2].kind = "Case" /\ od_ops[2].arg = "Upper"
    /\ od_out = << [text |-> <<"A">>, from |-> {2}], [text |-> <<"A">>, from |-> {3}] >>

(***************************************************************************)
(* The range iterator with a step of zero                                  *)
(***************************************************************************)
\* the range start..end (or start..=end) holds at least one integer
RiNonEmpty ==
    IF ri_args.included THEN ri_args.start <= ri_args.end ELSE ri_args.start < ri_args.end

\* the values the calls of `call` have yielded, in order
RECURSIVE RiYielded(_, _)
RiYielded(log, call) ==
    IF log = <<>> THEN <<>>
    ELSE IF Head(log).call = call /\ Head(log).res = "some"
         THEN <<Head(log).val>> \o RiYielded(Tail(log), call)
    ELSE RiYielded(Tail(log), call)

\* C24: with a step of 0 every call of next on a non-empty range yields start
\* and none reports the end of the stream, however many calls were made; on
\* an empty range no call yields anything
C24_ZeroStepRepeatsStart ==
    ri_args.step = 0 =>
        /\ RiNonEmpty =>
              /\ ri_pc \in {"new", "iter"}
              /\ \A i \in 1..Len(ri_log) :
                    ri_log[i].call = "next" =>
                        ri_log[i].res = "some" /\ ri_log[i].val = ri_args.start
              /\ ri_pc = "iter" => RangeIterNext(ri_it, ri_checks).res = "some"
        /\ ~RiNonEmpty =>
              /\ \A i \in 1..Len(ri_log) : ri_log[i].res # "some"
              /\ ri_pc = "iter" => RangeIterNext(ri_it, ri_checks).res = "none"

\* range_to_iter(0, 1, false, 0) has yielded 0 on each of MaxRiCalls calls of next
C24_Witness ==
    /\ ri_args = [start |-> 0, end |-> 1, included |-> FALSE, step |-> 0]
    /\ Len(ri_log) = MaxRiCalls
    /\ \A i \in 1..Len(ri_log) : ri_log[i] = [call |-> "next", res |-> "some", val |-> 0]

(***************************************************************************)
(* next and next_back called in any order on one range iterator            *)
(***************************************************************************)
\* the values yielded so far, whichever call yielded them
RiValues == { ri_log[i].val : i \in { j \in 1..Len(ri_log) : ri_log[j].res = "some" } }

\* no value was yielded by two calls
RiNoRepeat ==
    \A i, j \in 1..Len(ri_log) :
        (i < j /\ ri_log[i].res = "some" /\ ri_log[j].res = "some") =>
            ri_log[i].val # ri_log[j].val

\* what next yielded is below what next_back yielded
RiFrontBelowBack ==
    \A i, j \in 1..Len(ri_log) :
        (/\ ri_log[i].call = "next" /\ ri_log[i].res = "some"
         /\ ri_log[j].call = "next_back" /\ ri_log[j].res = "some") =>
            ri_log[i].val < ri_log[j].val

\* every yielded value is within the bounds of the range
RiWithinBounds ==
    \A v \in RiValues :
        /\ v >= ri_args.start
        /\ IF ri_args.included THEN v <= ri_args.end ELSE v < ri_args.end

\* once the front cursor is past the back cursor both calls return None and
\* leave the cursors where they are
RiExhaustedStaysNone ==
    (ri_pc = "iter" /\ ri_it.next > ri_it.next_back) =>
        /\ RangeIterNext(ri_it, ri_checks) = [res |-> "none", val |-> 0, it |-> ri_it]
        /\ RangeIterNextBack(ri_it, ri_checks) = [res |-> "none", val |-> 0, it |-> ri_it]

RiInterleaved ==
    /\ RiNoRepeat
    /\ RiFrontBelowBack
    /\ RiWithinBounds
    /\ RiExhaustedStaysNone

\* C28: for a step other than 0 and every order of next and next_back calls,
\* no integer is yielded twice, every value from next is below every value
\* from next_back, every value is within the bounds, and once the front
\* cursor has passed the back cursor both calls return None
C28_InterleavedCalls ==
    ri_args.step # 0 => RiInterleaved

\* the same in a build with overflow checks, where a cursor that would leave
\* the Integer range panics instead of wrapping
RiInterleavedWithChecks ==
    (ri_args.step # 0 /\ ri_checks) => RiInterleaved

(***************************************************************************)
(* The cursor arithmetic of the range iterator                             *)
(***************************************************************************)
\* the value end - 1 that range_to_iter computes for an exclusive end
RiBackOfEnd == IF ri_args.included THEN ri_args.end ELSE ri_args.end - 1

\* the cursor updates the next call of next / next_back would make
RiNextUpdateOverflows ==
    /\ InBounds(ri_it, ri_it.next) /\ ri_it.next <= ri_it.next_back
    /\ Overflows(ri_it.next + ri_it.step)
RiNextBackUpdateOverflows ==
    /\ InBounds(ri_it, ri_it.next_back) /\ ri_it.next_back >= ri_it.next
    /\ Overflows(ri_it.next_back - ri_it.step)

\* C29: for every start, every end and every step the parser accepts (not 0),
\* end - 1, next += step and next_back -= step stay within Integer: no
\* computation panics and none is about to leave the range
C29_CursorsNeverOverflow ==
    ri_args.step # 0 =>
        /\ ~Overflows(RiBackOfEnd)
        /\ ri_pc # "panic"
        /\ ri_pc = "iter" => ~RiNextUpdateOverflows /\ ~RiNextBackUpdateOverflows

(***************************************************************************)
(* What the slice iterator yields                                          *)
(***************************************************************************)
\* the index lies inside the range
InRange(range, idx) ==
    /\ range[1] = NoneU \/ range[1] <= idx
    /\ range[2] = NoneU \/ idx <= range[2]

\* C26: the indices yielded are strictly increasing (so none is yielded twice),
\* each lies inside one of the given ranges that is not inverted, and with an
\* empty range list nothing is yielded and nothing is pulled from the source
C26_SliceYieldsInsideRanges ==
    /\ \A i, j \in 1..Len(si_out) : i < j => si_out[i] < si_out[j]
    /\ \A i \in 1..Len(si_out) :
          \E k \in 1..Len(si_given) :
              ~IsInverted(si_given[k]) /\ InRange(si_given[k], si_out[i])
    /\ si_given = <<>> => si_out = <<>> /\ si_idx = 0
    /\ si_idx <= (IF si_inf THEN MaxSiPulls + 1 ELSE si_len)

\* the ranges 0..=1 and 3..=3 over four items: indices 0, 1 and 3 were yielded
\* and the call after the last range was dropped ended the stream
C26_Witness ==
    /\ si_pc = "end"
    /\ si_given = << <<0, 1>>, <<3, 3>> >>
    /\ ~si_inf /\ si_len = 4
    /\ si_out = <<0, 1, 3>>
    /\ si_idx = 4

(***************************************************************************)
(* End of the stream of the slice iterator                                 *)
(***************************************************************************)
\* every given range has an upper bound
SiAllBounded == \A k \in 1..Len(si_given) : si_given[k][2] # NoneU

\* the given ranges are not inverted and each starts after the end of the one before
SiAscending ==
    /\ \A k \in 1..Len(si_given) : ~IsInverted(si_given[k])
    /\ \A k \in 2..Len(si_given) :
          si_given[k][1] # NoneU /\ si_given[k][1] > si_given[k - 1][2]

\* C27: when every given range has an upper bound the iterator reports the
\* end of the stream, whatever the order of the ranges and whether or not
\* the source ends
C27_BoundedRangesEnd ==
    SiAllBounded => <>(si_pc = "end")

\* the same for ranges given in ascending order
SiAscendingRangesEnd ==
    (SiAllBounded /\ SiAscending) => <>(si_pc = "end")

(***************************************************************************)
(* The words :join leaves in the token stream                              *)
(***************************************************************************)
\* the word can be an argument of :join: it is not a command
PjIsArg(w) == w \notin {":Upper"}

\* the words are :join <delimiter> <prefix> <postfix> <batch> and what follows
PjFullForm ==
    /\ Len(pj_args) >= 5
    /\ \A i \in 2..4 : PjIsArg(pj_args[i])
    /\ pj_args[5] = "2"

\* how many words after :join are arguments of it when no batch size is given:
\* the leading words that are not commands, three at most
PjTaken ==
    LET n == Len(pj_args) - 1
        isArg(i) == i <= n /\ PjIsArg(pj_args[i + 1])
    IN  IF ~isArg(1) THEN 0 ELSE IF ~isArg(2) THEN 1 ELSE IF ~isArg(3) THEN 2 ELSE 3

\* C30: after :join <delimiter> <prefix> <postfix> <batch> exactly these five
\* words are consumed and every word that follows the batch size is left for
\* the following parser
C30_JoinConsumesFiveTokens ==
    (pj_pc = "done" /\ PjFullForm) =>
        /\ pj_op.batch = 2
        /\ pj_rest = SubSeq(pj_args, 6, Len(pj_args))

\* without a batch size :join leaves every word after its arguments
PjNoBatchLeavesRest ==
    (pj_pc = "done" /\ ~PjFullForm) =>
        /\ pj_op.batch = NoneU
        /\ pj_rest = SubSeq(pj_args, PjTaken + 2, Len(pj_args))

====
